---------------------------- MODULE Spec2Model ----------------------------
(***************************************************************************)
(* State-machine model of the fastapi-backend scaffold.  Each subsystem    *)
(* (snowflake id generator, session cache, task managers, cron scheduler,  *)
(* ORM builders, auth middleware, request signature, middleware stack,     *)
(* exception boundary, entity writes, audit transaction, query builder,    *)
(* HTTP client) has its own group of variables, its own actions and its    *)
(* own specification; a specification moves only the variables of its      *)
(* subsystem and leaves the others at their initial value.                 *)
(***************************************************************************)
EXTENDS Integers, Sequences, FiniteSets, TLC

VARIABLES
    \* ---- pkg/snow_flake.py : Snowflake ----
    sf_sequence,        \* self.sequence
    sf_last_timestamp,  \* self.last_timestamp
    sf_clock,           \* the wall clock in milliseconds (_current_millis)
    sf_ids,             \* the ids returned so far, in call order
    sf_raised,          \* number of generate_id calls that raised
    sf_regressed,       \* TRUE once the clock has moved backwards
    \* ---- internal/dao/cache.py, internal/core/session.py, internal/services/auth.py ----
    db_users,           \* ids of the User rows holding the phone number
    ss_rec,             \* session:<token> records: token -> user id, 0 when absent
    ss_list,            \* session_list:<user_id>: user id -> list of tokens
    ss_issued,          \* number of tokens create_uuid_session has produced
    lg_pc,              \* position of each login call
    lg_uid,             \* the user each login call resolved
    lg_tok,             \* the session token each login call created
    lg_len,             \* the list length each login call read in set_session_list
    ss_returned,        \* the tokens that login calls have returned
    ss_overlap,         \* TRUE once two login calls have been in progress together
    v_last,             \* outcome of the last verify_session call since a login began
    \* ---- pkg/anyio_task_manager.py : AnyioTaskManager ----
    an_tg_started,      \* self._tg_started
    an_tasks,           \* self.tasks: task_id -> the add_task call that created the entry, 0 when absent
    an_call,            \* every add_task call: position, arguments, what it saw in the registry
    an_task,            \* the _run_task_inner coroutine each call started: position and TaskInfo.status
    \* ---- internal/utils/asyncio_task.py : AsyncTaskManager ----
    as_tasks,           \* self.tasks: task_id -> the add_task call that created the entry, 0 when absent
    as_lock,            \* self.lock: the add_task call holding it, 0 when free
    as_call,            \* every add_task call: position and arguments
    as_task,            \* the _run_task coroutine each call started: position and logged outcome
    \* ---- run_tasks_return_results / run_gather_with_concurrency ----
    fo_mgr,             \* the manager whose fan-out method was called, "none" before the call
    fo_args,            \* args_tuple_list
    fo_timeout,         \* timeout (0 stands for None)
    fo_item,            \* position of each _wrapped child
    fo_results,         \* the results list
    fo_returned,        \* TRUE once the method has returned fo_results
    \* ---- pkg/aps_task_manager.py : ApsSchedulerTool ----
    cr_started,         \* self._started
    cr_pending,         \* self._pending_jobs, as registration numbers
    cr_job,             \* the register_* calls so far: the kind of job each one passed
    cr_added,           \* per registration: number of self._scheduler.add_job calls that accepted it
    cr_running,         \* TRUE while the underlying AsyncIOScheduler is running
    cr_starts,          \* number of start() calls that went past the _started test
    \* ---- internal/utils/orm_helpers.py, internal/dao/__init__.py : builders ----
    orm_rows,           \* the table: row id -> columns (deleted_at 0 stands for NULL)
    orm_now,            \* the clock read by get_utc_without_tzinfo / get_utc_datetime
    orm_last,           \* the last builder call: what was asked and what it gave
    \* ---- internal/middleware/auth.py, internal/core/auth_token.py ----
    mw_tokens,          \* cache: token -> the id in its user data, -1 when the key is absent
    mw_lists,           \* cache: user id -> the tokens in that user's token list
    mw_req,             \* the request being dispatched: path and Authorization header
    mw_pc,              \* position of dispatch
    mw_user_data,       \* verify_token: the id in the user data read, -1 for None
    mw_listed,          \* verify_token: whether the token was in the list read
    mw_checked,         \* TRUE once dispatch has read the cache for this request
    mw_ctx,             \* the current-request user id context variable, 0 when unset
    mw_handler_ctx,     \* the context user id the downstream handler was invoked with
    mw_resp,            \* outcome: "none", "handler" (call_next), "401", "error" (exception)
    \* ---- internal/core/signature.py, internal/middleware/auth.py : signed open-API requests ----
    sg_now,             \* int(time.time())
    sg_ticks,           \* number of clock advances so far
    sg_reqs,            \* number of signed requests dispatched so far
    sg_req,             \* the last signed request: X-Signature, X-Timestamp, X-Nonce
    sg_at,              \* the clock when sg_req was dispatched
    sg_ts_valid,        \* what is_timestamp_valid gave for sg_req (internal/core)
    sg_ts_valid_core,   \* what the core/signature.py variant gives for the same input
    sg_resp,            \* outcome of the dispatch: "none", "handler", "401", "error"
    sg_accepted,        \* the header triples that reached the handler
    sg_replayed,        \* TRUE once a triple accepted before was accepted again
    \* ---- pkg/anyio_task_manager.py : cancellation, shutdown and offloaded calls ----
    an_tg_cancelled,    \* TRUE once the cancel scope of self._tg has been cancelled
    an_shutdown,        \* position of the last shutdown() call: "idle", "aexit", "returned", "raised"
    an_scope,           \* TaskInfo.scope of every add_task call: cancel() called, by whom, the coroutine running then
    an_cancel,          \* the last cancel_task call: what it returned, whether the id was registered
    an_offload,         \* every run_in_thread / run_in_process call: position and arguments
    \* ---- pkg/anyio_task_manager.py : one AnyioTaskManager in each of several worker processes ----
    xp_started,         \* per process: self._tg_started
    xp_tasks,           \* per process: the task ids in self.tasks
    xp_live,            \* per process and task id: coroutines started by add_task and not yet ended
    xp_last,            \* per process: the last add_task call, its task id, what it returned, whether it found the id registered
    \* ---- internal/app.py : the middleware stack and one request passing through it ----
    pl_created,         \* create_app has run
    pl_user_middleware, \* app.user_middleware, outermost first
    pl_reqs,            \* requests served so far
    pl_req,             \* the request in the pipeline
    pl_pos,             \* index in the stack of the stage that holds the request, response or exception
    pl_mode,            \* idle, down (request), up (response), raise (exception), done, escaped
    pl_seen,            \* the stages that saw the request, in order
    pl_back,            \* the stages the response left, in order
    pl_status,          \* status of the response
    pl_body,            \* the body of the response
    pl_prev,            \* the request served before this one and the body it was answered with
    pl_again,           \* the stages that saw the request a second time, in order
    \* ---- internal/middleware/exception.py : ExceptionHandlerMiddleware serving one http scope ----
    eb_calls,           \* http calls served so far
    eb_pc,              \* idle, app (self.app inside try), app2 (self.app after the if block), done
    eb_response_started, \* response_started of send_wrapper
    eb_response_ended,  \* response_ended of send_wrapper
    eb_app_sent,        \* what the running call of self.app has sent: nothing, started, ended
    eb_wire,            \* the messages handed to send, in order, each with its sender
    eb_exc,             \* the exception self.app raised
    eb_case,            \* the flags when it was raised: a (not started), b (started, not ended), ended, second
    eb_result,          \* how __call__ ended: none, returned, raised
    \* ---- internal/models/__init__.py : ModelMixin entities, and the UpdateBuilder of orm_helpers acting on their rows ----
    en_rows,            \* the table: slot -> row (exists FALSE: not inserted yet; 0 stands for NULL)
    en_now,             \* the clock read by get_utc_without_tzinfo
    en_next,            \* the next id generate_snowflake_id returns
    en_last,            \* whether the last operation raised
    \* ---- internal/dao/dao.py : update_and_insert_log in its transaction ----
    au_calls,           \* calls made so far
    au_pc,              \* idle, begun (inside session.begin), executed, added, done
    au_db,              \* the committed database: update effects and AssetOperationLog rows
    au_tx,              \* what the open transaction has pending
    au_before,          \* the committed database when the call started
    au_result,          \* none, ok (returned), error (raised HTTPException)
    au_fail,            \* the step that failed: none, update, insert, commit
    \* ---- internal/utils/orm_helpers.py : one QueryBuilder instance used for several queries ----
    qb_stmt,            \* self._stmt: the conditions of the statement, in the order added
    qb_last,            \* the last query executed: the condition added for it and the ids returned
    \* ---- pkg/httpx_helper.py : HTTPXClient ----
    hx_calls,           \* calls made so far
    hx_last             \* the last call: method, to_raise, what the upstream did, how the call ended

sfVars == <<sf_sequence, sf_last_timestamp, sf_clock, sf_ids, sf_raised, sf_regressed>>

ssVars == <<db_users, ss_rec, ss_list, ss_issued, lg_pc, lg_uid, lg_tok, lg_len,
           ss_returned, ss_overlap, v_last>>

anVars == <<an_tg_started, an_tasks, an_call, an_task>>

asVars == <<as_tasks, as_lock, as_call, as_task>>

foVars == <<fo_mgr, fo_args, fo_timeout, fo_item, fo_results, fo_returned>>

crVars == <<cr_started, cr_pending, cr_job, cr_added, cr_running, cr_starts>>

ormVars == <<orm_rows, orm_now, orm_last>>

mwVars == <<mw_tokens, mw_lists, mw_req, mw_pc, mw_user_data, mw_listed, mw_checked,
           mw_ctx, mw_handler_ctx, mw_resp>>

sgVars == <<sg_now, sg_ticks, sg_reqs, sg_req, sg_at, sg_ts_valid, sg_ts_valid_core,
           sg_resp, sg_accepted, sg_replayed>>

alVars == <<an_tg_cancelled, an_shutdown, an_scope, an_cancel, an_offload>>

xpVars == <<xp_started, xp_tasks, xp_live, xp_last>>

plVars == <<pl_created, pl_user_middleware, pl_reqs, pl_req, pl_pos, pl_mode, pl_seen, pl_back, pl_status,
           pl_body, pl_prev, pl_again>>

ebVars == <<eb_calls, eb_pc, eb_response_started, eb_response_ended, eb_app_sent, eb_wire, eb_exc, eb_case, eb_result>>

enVars == <<en_rows, en_now, en_next, en_last>>

auVars == <<au_calls, au_pc, au_db, au_tx, au_before, au_result, au_fail>>

qbVars == <<qb_stmt, qb_last>>

hxVars == <<hx_calls, hx_last>>

vars == <<sfVars, ssVars, anVars, asVars, foVars, crVars, ormVars, mwVars, sgVars, alVars, xpVars, plVars, ebVars, enVars, auVars, qbVars, hxVars>>

\* what the actions of one subsystem leave unchanged: every other subsystem
SfFrame == <<ssVars, anVars, asVars, foVars, crVars, ormVars, mwVars, sgVars, alVars, xpVars, plVars, ebVars, enVars, auVars, qbVars, hxVars>>
SsFrame == <<sfVars, anVars, asVars, foVars, crVars, ormVars, mwVars, sgVars, alVars, xpVars, plVars, ebVars, enVars, auVars, qbVars, hxVars>>
AnFrame == <<sfVars, ssVars, asVars, foVars, crVars, ormVars, mwVars, sgVars, xpVars, plVars, ebVars, enVars, auVars, qbVars, hxVars>>
AsFrame == <<sfVars, ssVars, anVars, foVars, crVars, ormVars, mwVars, sgVars, alVars, xpVars, plVars, ebVars, enVars, auVars, qbVars, hxVars>>
FoFrame == <<sfVars, ssVars, anVars, asVars, crVars, ormVars, mwVars, sgVars, alVars, xpVars, plVars, ebVars, enVars, auVars, qbVars, hxVars>>
CrFrame == <<sfVars, ssVars, anVars, asVars, foVars, ormVars, mwVars, sgVars, alVars, xpVars, plVars, ebVars, enVars, auVars, qbVars, hxVars>>
OrmFrame == <<sfVars, ssVars, anVars, asVars, foVars, crVars, mwVars, sgVars, alVars, xpVars, plVars, ebVars, enVars, auVars, qbVars, hxVars>>
MwFrame == <<sfVars, ssVars, anVars, asVars, foVars, crVars, ormVars, sgVars, alVars, xpVars, plVars, ebVars, enVars, auVars, qbVars, hxVars>>
SgFrame == <<sfVars, ssVars, anVars, asVars, foVars, crVars, ormVars, mwVars, alVars, xpVars, plVars, ebVars, enVars, auVars, qbVars, hxVars>>
XpFrame == <<sfVars, ssVars, anVars, asVars, foVars, crVars, ormVars, mwVars, sgVars, alVars, plVars, ebVars, enVars, auVars, qbVars, hxVars>>
PlFrame == <<sfVars, ssVars, anVars, asVars, foVars, crVars, ormVars, mwVars, sgVars, alVars, xpVars, ebVars, enVars, auVars, qbVars, hxVars>>
EbFrame == <<sfVars, ssVars, anVars, asVars, foVars, crVars, ormVars, mwVars, sgVars, alVars, xpVars, plVars, enVars, auVars, qbVars, hxVars>>
EnFrame == <<sfVars, ssVars, anVars, asVars, foVars, crVars, ormVars, mwVars, sgVars, alVars, xpVars, plVars, ebVars, auVars, qbVars, hxVars>>
AuFrame == <<sfVars, ssVars, anVars, asVars, foVars, crVars, ormVars, mwVars, sgVars, alVars, xpVars, plVars, ebVars, enVars, qbVars, hxVars>>
QbFrame == <<sfVars, ssVars, anVars, asVars, foVars, crVars, ormVars, mwVars, sgVars, alVars, xpVars, plVars, ebVars, enVars, auVars, hxVars>>
HxFrame == <<sfVars, ssVars, anVars, asVars, foVars, crVars, ormVars, mwVars, sgVars, alVars, xpVars, plVars, ebVars, enVars, auVars, qbVars>>

-----------------------------------------------------------------------------
(* Generic helpers *)

Range(s) == {s[i] : i \in 1..Len(s)}

RECURSIVE Pow2(_)
Pow2(n) == IF n = 0 THEN 1 ELSE 2 * Pow2(n - 1)

\* a & b on non-negative integers, bit by bit
RECURSIVE BitAnd(_, _)
BitAnd(a, b) ==
    IF a = 0 \/ b = 0 THEN 0
    ELSE (IF a % 2 = 1 /\ b % 2 = 1 THEN 1 ELSE 0) + 2 * BitAnd(a \div 2, b \div 2)

\* a | b on non-negative integers, bit by bit
RECURSIVE BitOr(_, _)
BitOr(a, b) ==
    IF a = 0 THEN b
    ELSE IF b = 0 THEN a
    ELSE (IF a % 2 = 1 \/ b % 2 = 1 THEN 1 ELSE 0) + 2 * BitOr(a \div 2, b \div 2)

ShiftLeft(a, n) == a * Pow2(n)
ShiftRight(a, n) == a \div Pow2(n)

-----------------------------------------------------------------------------
(***************************************************************************)
(* pkg/snow_flake.py                                                       *)
(***************************************************************************)

MaxClock == 2       \* the clock takes the values 1..MaxClock
MaxIds == 34        \* at most this many ids are generated in one run
MaxRaised == 1      \* at most this many generate_id calls raise in one run

worker_id == 0
datacenter_id == 0
worker_id_bits == 5
datacenter_id_bits == 5
sequence_bits == 12

\* -1 ^ (-1 << bits)  =  2^bits - 1
max_worker_id == Pow2(worker_id_bits) - 1
max_datacenter_id == Pow2(datacenter_id_bits) - 1

worker_id_shift == sequence_bits
datacenter_id_shift == sequence_bits + worker_id_bits
timestamp_shift == sequence_bits + worker_id_bits + datacenter_id_bits

\* the variables of the other subsystems

SfInit ==
    /\ sf_sequence = 0
    /\ sf_last_timestamp = -1
    /\ sf_clock = 1
    /\ sf_ids = <<>>
    /\ sf_raised = 0
    /\ sf_regressed = FALSE

\* the sequence of the next id: line 43-46
NextSequence(timestamp) ==
    IF sf_last_timestamp = timestamp
    THEN BitAnd(sf_sequence + 1, max_worker_id)
    ELSE 0

\* line 50-53
ComposeId(timestamp, seq) ==
    BitOr(BitOr(BitOr(ShiftLeft(timestamp, timestamp_shift),
                      ShiftLeft(datacenter_id, datacenter_id_shift)),
                ShiftLeft(worker_id, worker_id_shift)),
          seq)

TimestampOf(id) == ShiftRight(id, timestamp_shift)

\* generate_id, the whole body under self.lock: returns an id
GenerateId ==
    /\ Len(sf_ids) < MaxIds
    /\ ~(sf_clock < sf_last_timestamp)
    /\ LET timestamp == sf_clock
           seq == NextSequence(timestamp)
       IN /\ sf_sequence' = seq
          /\ sf_last_timestamp' = timestamp
          /\ sf_ids' = Append(sf_ids, ComposeId(timestamp, seq))
    /\ UNCHANGED <<sf_clock, sf_raised, sf_regressed, SfFrame>>

GenerateIdRaisesLate ==
    /\ sf_raised < MaxRaised
    /\ sf_clock < sf_last_timestamp
    /\ sf_raised' = sf_raised + 1
    /\ sf_last_timestamp' = sf_clock
    /\ UNCHANGED <<sf_sequence, sf_clock, sf_ids, sf_regressed, SfFrame>>

\* generate_id when the clock is behind last_timestamp: raises
GenerateIdRaises ==
    /\ sf_raised < MaxRaised
    /\ sf_clock < sf_last_timestamp
    /\ sf_raised' = sf_raised + 1
    /\ UNCHANGED <<sf_sequence, sf_last_timestamp, sf_clock, sf_ids, sf_regressed, SfFrame>>

\* time passes
ClockTick ==
    /\ sf_clock < MaxClock
    /\ sf_clock' = sf_clock + 1
    /\ UNCHANGED <<sf_sequence, sf_last_timestamp, sf_ids, sf_raised, sf_regressed, SfFrame>>

\* the wall clock is set back (NTP step, manual change)
ClockBack ==
    /\ sf_clock > 1
    /\ sf_clock' = sf_clock - 1
    /\ sf_regressed' = TRUE
    /\ UNCHANGED <<sf_sequence, sf_last_timestamp, sf_ids, sf_raised, SfFrame>>

SfNext == GenerateId \/ GenerateIdRaises \/ ClockTick \/ ClockBack

\* C4: while the clock never moves backwards, all ids returned by one
\* generator are pairwise distinct and their timestamp components are
\* non-decreasing in call order, also when more calls than the sequence field
\* can count fall inside one millisecond.
SnowflakeIdsUnique ==
    ~sf_regressed =>
        /\ \A i, j \in 1..Len(sf_ids) : i # j => sf_ids[i] # sf_ids[j]
        /\ \A i, j \in 1..Len(sf_ids) : i < j => TimestampOf(sf_ids[i]) <= TimestampOf(sf_ids[j])

\* C22: clock regression fails fast.  A generate_id call that finds the
\* clock behind last_timestamp raises, returns no id and leaves
\* last_timestamp and sequence as they were; so the timestamp components of
\* the ids returned are non-decreasing in call order, whatever the clock does.
ClockRegressionFailsFast ==
    /\ [][(sf_clock < sf_last_timestamp /\ <<sf_ids, sf_raised>>' # <<sf_ids, sf_raised>>)
             => /\ sf_raised' = sf_raised + 1
                /\ UNCHANGED <<sf_ids, sf_last_timestamp, sf_sequence>>]_vars
    /\ [](\A i, j \in 1..Len(sf_ids) : i < j => TimestampOf(sf_ids[i]) <= TimestampOf(sf_ids[j]))
    /\ [](\A i \in 1..Len(sf_ids) : TimestampOf(sf_ids[i]) <= sf_last_timestamp)

\* the clock went back, a call raised, and an id was returned after that
ClockRegressionFailsFastWitness ==
    /\ sf_regressed
    /\ sf_raised > 0
    /\ Len(sf_ids) >= 2
    /\ TimestampOf(sf_ids[Len(sf_ids)]) > TimestampOf(sf_ids[1])
    /\ sf_clock < sf_last_timestamp

-----------------------------------------------------------------------------
(***************************************************************************)
(* internal/dao/cache.py, internal/core/session.py,                        *)
(* internal/services/auth.py : phone login and the session cache           *)
(***************************************************************************)

MaxLogins == 4      \* number of login calls in one run
MaxInFlight == 2    \* number of login calls in progress at the same time

SessionCap == 3     \* the literal 3 of set_session_list

Logins == 1..MaxLogins
Tokens == 1..MaxLogins
UserIds == 1..MaxLogins

NoVerify == [tok |-> 0, ok |-> FALSE]

\* the variables of the other subsystems

\* the phone number is unknown, or its User row already exists
SsInit ==
    /\ db_users \in {{}, {1}}
    /\ ss_rec = [t \in Tokens |-> 0]
    /\ ss_list = [u \in UserIds |-> <<>>]
    /\ ss_issued = 0
    /\ lg_pc = [p \in Logins |-> "idle"]
    /\ lg_uid = [p \in Logins |-> 0]
    /\ lg_tok = [p \in Logins |-> 0]
    /\ lg_len = [p \in Logins |-> 0]
    /\ ss_returned = {}
    /\ ss_overlap = FALSE
    /\ v_last = NoVerify

InProgress(p) == lg_pc[p] \notin {"idle", "done", "failed"}

\* the id of a row created now (rows are never removed here)
FreshUserId == Cardinality(db_users) + 1

\* querier(User).where_(User.phone, phone).get_or_none(): the row, 0 for none;
\* with several matching rows the fetch returns one of them or raises (-1)
LookupOutcomes ==
    IF db_users = {} THEN {0}
    ELSE IF Cardinality(db_users) = 1 THEN db_users
    ELSE db_users \cup {-1}

\* frontend_user_login_or_create, line 32: the lookup
LoginLookup(p) ==
    /\ lg_pc[p] = "idle"
    /\ \A q \in Logins : q < p => lg_pc[q] # "idle"
    /\ Cardinality({q \in Logins : InProgress(q)}) < MaxInFlight
    /\ \E r \in LookupOutcomes :
          /\ lg_pc' = [lg_pc EXCEPT ![p] =
                          IF r = -1 THEN "failed" ELSE IF r = 0 THEN "save" ELSE "set_session"]
          /\ lg_uid' = [lg_uid EXCEPT ![p] = IF r > 0 THEN r ELSE 0]
    /\ ss_overlap' = (ss_overlap \/ \E q \in Logins : q # p /\ InProgress(q))
    /\ v_last' = NoVerify
    /\ UNCHANGED <<db_users, ss_rec, ss_list, ss_issued, lg_tok, lg_len, ss_returned, SsFrame>>

\* frontend_user_login_or_create, line 33-35: User.init_by_phone(phone).save()
LoginSave(p) ==
    /\ lg_pc[p] = "save"
    /\ db_users' = db_users \cup {FreshUserId}
    /\ lg_uid' = [lg_uid EXCEPT ![p] = FreshUserId]
    /\ lg_pc' = [lg_pc EXCEPT ![p] = "set_session"]
    /\ UNCHANGED <<ss_rec, ss_list, ss_issued, lg_tok, lg_len, ss_returned, ss_overlap, v_last, SsFrame>>

\* login_and_set_session, line 208-211: create_uuid_session, set_session
LoginSetSession(p) ==
    /\ lg_pc[p] = "set_session"
    /\ LET session == ss_issued + 1
       IN /\ ss_issued' = session
          /\ lg_tok' = [lg_tok EXCEPT ![p] = session]
          /\ ss_rec' = [ss_rec EXCEPT ![session] = lg_uid[p]]
    /\ lg_pc' = [lg_pc EXCEPT ![p] = "get_list"]
    /\ UNCHANGED <<db_users, ss_list, lg_uid, lg_len, ss_returned, ss_overlap, v_last, SsFrame>>

\* set_session_list, line 33: not session_list or length_session_list < 3
ListHasRoomOffByOne(length) == length = 0 \/ length <= SessionCap

ListHasRoom(length) == length = 0 \/ length < SessionCap

\* set_session_list, line 29-30: session_list = await get_list(cache_key)
LoginGetList(p) ==
    /\ lg_pc[p] = "get_list"
    /\ LET length == Len(ss_list[lg_uid[p]])
       IN /\ lg_len' = [lg_len EXCEPT ![p] = length]
          /\ lg_pc' = [lg_pc EXCEPT ![p] = IF ListHasRoom(length) THEN "rpush" ELSE "lpop"]
    /\ UNCHANGED <<db_users, ss_rec, ss_list, ss_issued, lg_uid, lg_tok, ss_returned, ss_overlap, v_last, SsFrame>>

\* redis.lpop: removes the head, nothing on an empty list
Lpop(list) == IF list = <<>> THEN list ELSE Tail(list)

\* set_session_list, line 36-37: old_session = await redis.lpop(cache_key)
LoginLpop(p) ==
    /\ lg_pc[p] = "lpop"
    /\ ss_list' = [ss_list EXCEPT ![lg_uid[p]] = Lpop(@)]
    /\ lg_pc' = [lg_pc EXCEPT ![p] = "rpush"]
    /\ UNCHANGED <<db_users, ss_rec, ss_issued, lg_uid, lg_tok, lg_len, ss_returned, ss_overlap, v_last, SsFrame>>

\* set_session_list, line 34 / 41: await redis.rpush(cache_key, session); the call returns
LoginRpush(p) ==
    /\ lg_pc[p] = "rpush"
    /\ ss_list' = [ss_list EXCEPT ![lg_uid[p]] = Append(@, lg_tok[p])]
    /\ lg_pc' = [lg_pc EXCEPT ![p] = "done"]
    /\ ss_returned' = ss_returned \cup {lg_tok[p]}
    /\ lg_uid' = [lg_uid EXCEPT ![p] = 0]
    /\ lg_tok' = [lg_tok EXCEPT ![p] = 0]
    /\ lg_len' = [lg_len EXCEPT ![p] = 0]
    /\ UNCHANGED <<db_users, ss_rec, ss_issued, ss_overlap, v_last, SsFrame>>

\* the TTL of a session:<token> record runs out; every record is stored with
\* the same TTL (set_session, ex=10800), so records expire in issue order
SessionExpire(t) ==
    /\ ss_rec[t] # 0
    /\ \A o \in Tokens : o < t => ss_rec[o] = 0
    /\ ss_rec' = [ss_rec EXCEPT ![t] = 0]
    /\ UNCHANGED <<db_users, ss_list, ss_issued, lg_pc, lg_uid, lg_tok, lg_len, ss_returned, ss_overlap, v_last, SsFrame>>

\* verify_session: the record exists, carries a user id, and the token is in
\* that user's session list
VerifySessionOk(session) ==
    /\ session # 0
    /\ ss_rec[session] # 0
    /\ session \in Range(ss_list[ss_rec[session]])

\* a client presents token t between logins
VerifySession(t) ==
    /\ t <= ss_issued
    /\ \A p \in Logins : ~InProgress(p)
    /\ v_last' = [tok |-> t, ok |-> VerifySessionOk(t)]
    /\ UNCHANGED <<db_users, ss_rec, ss_list, ss_issued, lg_pc, lg_uid, lg_tok, lg_len, ss_returned, ss_overlap, SsFrame>>

SsNext ==
    \/ \E p \in Logins : LoginLookup(p)
    \/ \E p \in Logins : LoginSave(p)
    \/ \E p \in Logins : LoginSetSession(p)
    \/ \E p \in Logins : LoginGetList(p)
    \/ \E p \in Logins : LoginLpop(p)
    \/ \E p \in Logins : LoginRpush(p)
    \/ \E t \in Tokens : SessionExpire(t)
    \/ \E t \in Tokens : VerifySession(t)

Quiescent == \A p \in Logins : ~InProgress(p)
DoneLogins == {p \in Logins : lg_pc[p] = "done"}

\* C2: after n >= 4 completed, non-overlapping logins of one user, the
\* session list holds exactly the 3 most recently issued tokens in issue
\* order; verify_session fails for every earlier token (also while its record
\* still exists) and succeeds for each listed token whose record is present.
SessionCapSequential ==
    (~ss_overlap /\ Quiescent /\ Cardinality(DoneLogins) >= SessionCap + 1) =>
        \E u \in db_users :
            /\ \A t \in ss_returned : ss_rec[t] \in {u, 0}
            /\ ss_list[u] = <<ss_issued - 2, ss_issued - 1, ss_issued>>
            /\ \A t \in 1..ss_issued :
                  VerifySessionOk(t) <=> (t >= ss_issued - 2 /\ ss_rec[t] # 0)

\* four sequential logins are done, the first token's record still exists and
\* verify_session has just refused it
SessionCapSequentialWitness ==
    /\ ~ss_overlap /\ Quiescent /\ Cardinality(DoneLogins) >= SessionCap + 1
    /\ v_last.tok = 1 /\ ~v_last.ok /\ ss_rec[1] # 0
    /\ VerifySessionOk(ss_issued)

\* C3: under any interleaving of concurrent logins of one user the length of
\* session_list:<user_id> never exceeds 3.
SessionCapConcurrent == \A u \in UserIds : Len(ss_list[u]) <= SessionCap

\* C7: after any number of phone logins with the same previously unknown
\* phone number, in any interleaving of their lookup and save steps, exactly
\* one User row with that phone exists and every returned session resolves to
\* that row's id.
PhoneLoginOneUser ==
    (DoneLogins # {}) =>
        /\ Cardinality(db_users) = 1
        /\ \A t \in ss_returned : \A u \in db_users : ss_rec[t] \in {u, 0}

-----------------------------------------------------------------------------
(* pkg/anyio_task_manager.py : AnyioTaskManager.add_task and the tasks it   *)
(* starts.  The body of every "async with self._lock" block of this class   *)
(* contains no await, so each block is one atomic step taken when the lock  *)
(* is granted.                                                              *)

MaxAnCalls == 2
MaxOffloads == 1    \* run_in_thread / run_in_process calls explored
MaxCapArgs == 1     \* fan-out items started next to add_task and offloaded calls

\* the capacity both managers are constructed with (max_tasks=100 for the
\* global instances), scaled down so that the cap is reached
max_tasks == 2

AnCalls == 1..MaxAnCalls
TaskIds == {"t1", "t2"}
Timeouts == {0, 1}                  \* 0 stands for timeout=None

NoCall == [pc |-> "idle", task_id |-> "", timeout |-> 0, saw |-> 0]
NoTask == [pc |-> "none", status |-> "none"]

\* CancelScope(): a scope nobody has entered and nobody has cancelled
NoScope == [cancel_called |-> FALSE, by |-> "none", running |-> FALSE]

Offloads == 1..MaxOffloads
NoOffload == [pc |-> "idle", kind |-> "", timeout |-> 0, cancellable |-> FALSE]

AnInit ==
    /\ an_tg_started = FALSE
    /\ an_tasks = [t \in TaskIds |-> 0]
    /\ an_call = [c \in AnCalls |-> NoCall]
    /\ an_task = [c \in AnCalls |-> NoTask]

AlInit ==
    /\ an_tg_cancelled = FALSE
    /\ an_shutdown = "idle"
    /\ an_scope = [c \in AnCalls |-> NoScope]
    /\ an_cancel = [result |-> "none", registered |-> FALSE]
    /\ an_offload = [k \in Offloads |-> NoOffload]

AnLimiterBorrowedTasksOnly ==
    Cardinality({c \in AnCalls : an_task[c].pc = "coro"})

\* the borrowers of self._limiter: tasks inside "async with self._limiter"
\* of _run_task_inner, of _wrapped (run_gather_with_concurrency) and of
\* run_in_thread / run_in_process
AnLimiterBorrowed ==
    Cardinality({c \in AnCalls : an_task[c].pc = "coro"})
  + (IF fo_mgr = "anyio"
     THEN Cardinality({i \in 1..Len(fo_item) : fo_item[i] = "coro"}) ELSE 0)
  + Cardinality({k \in Offloads : an_offload[k].pc = "running"})

\* a task that was admitted and has not yet removed its registry entry
AnLive(c) == an_task[c].pc \in {"limiter", "coro", "finally"}

\* start(): opens the persistent task group
AnyioStart ==
    /\ ~an_tg_started
    /\ an_tg_started' = TRUE
    /\ an_tg_cancelled' = FALSE
    /\ UNCHANGED <<an_tasks, an_call, an_task, an_shutdown, an_scope, an_cancel,
                   an_offload, AnFrame>>

\* add_task up to "async with self._lock": raises when the manager is not
\* started, otherwise queues for the lock
AnyioAddTask(c, task_id, timeout) ==
    /\ an_call[c].pc = "idle"
    /\ \A d \in AnCalls : d < c => an_call[d].pc # "idle"
    /\ an_call' = [an_call EXCEPT ![c] =
          [pc |-> IF an_tg_started THEN "lock" ELSE "raised",
           task_id |-> task_id, timeout |-> timeout, saw |-> 0]]
    /\ UNCHANGED <<an_tg_started, an_tasks, an_task, alVars, AnFrame>>

\* the locked block of add_task: reject a registered task_id, otherwise
\* register a TaskInfo with a fresh CancelScope and start _run_task_inner in
\* the task group
AnyioAddTaskLocked(c) ==
    /\ an_call[c].pc = "lock"
    /\ an_tg_started
    /\ LET id == an_call[c].task_id IN
       IF an_tasks[id] # 0
       THEN /\ an_call' = [an_call EXCEPT ![c].pc = "false", ![c].saw = an_tasks[id]]
            /\ UNCHANGED <<an_tasks, an_task>>
       ELSE /\ an_tasks' = [an_tasks EXCEPT ![id] = c]
            /\ an_task' = [an_task EXCEPT ![c] = [pc |-> "limiter", status |-> "running"]]
            /\ an_call' = [an_call EXCEPT ![c].pc = "true"]
    /\ UNCHANGED <<an_tg_started, alVars, AnFrame>>

\* _run_task_inner enters the limiter and calls coro_func.  In a cancelled
\* task group the entry into the limiter raises the cancellation instead,
\* which "except BaseException" records as status cancelled.
AnyioRunTask(c) ==
    /\ an_task[c].pc = "limiter"
    /\ IF an_tg_cancelled
       THEN an_task' = [an_task EXCEPT ![c] = [pc |-> "finally", status |-> "cancelled"]]
       ELSE /\ AnLimiterBorrowed < max_tasks
            /\ an_task' = [an_task EXCEPT ![c].pc = "coro"]
    /\ UNCHANGED <<an_tg_started, an_tasks, an_call, alVars, AnFrame>>

\* the outcomes of "await coro_func(...)": fail_after is only armed for a
\* positive timeout
CoroOutcomes(timeout) ==
    IF timeout > 0 THEN {"completed", "failed", "timeout"} ELSE {"completed", "failed"}

\* the cancellation that reaches the coroutine of a task: only that of the
\* task group the task runs in.  TaskInfo.scope is created in add_task and
\* never entered by any task, so cancel() on it reaches nobody.
CancelReaches(c) == IF an_tg_cancelled THEN {"cancelled"} ELSE {}

\* coro_func returns, raises, is timed out or is cancelled; info.status is
\* set
AnyioCoroEnd(c) ==
    /\ an_task[c].pc = "coro"
    /\ \E outcome \in CoroOutcomes(an_call[c].timeout) \cup CancelReaches(c) :
          an_task' = [an_task EXCEPT ![c] = [pc |-> "finally", status |-> outcome]]
    /\ UNCHANGED <<an_tg_started, an_tasks, an_call, alVars, AnFrame>>

\* finally: self.tasks.pop(task_id, None) under the lock.  In a cancelled
\* task group "async with self._lock" raises the cancellation again before
\* the lock is taken, and the entry stays.
AnyioTaskFinally(c) ==
    /\ an_task[c].pc = "finally"
    /\ IF an_tg_cancelled
       THEN /\ an_task' = [an_task EXCEPT ![c].pc = "left"]
            /\ UNCHANGED an_tasks
       ELSE /\ an_tasks' = [an_tasks EXCEPT ![an_call[c].task_id] = 0]
            /\ an_task' = [an_task EXCEPT ![c].pc = "done"]
    /\ UNCHANGED <<an_tg_started, an_call, alVars, AnFrame>>

\* cancel_task(task_id), the whole locked block: info.scope.cancel() and
\* True for a registered id, False otherwise
AnyioCancelTask(task_id) ==
    /\ LET c == an_tasks[task_id] IN
       IF c # 0
       THEN /\ an_scope' = [an_scope EXCEPT ![c] =
                  [cancel_called |-> TRUE, by |-> "cancel_task",
                   running |-> an_task[c].pc = "coro"]]
            /\ an_cancel' = [result |-> "true", registered |-> TRUE]
       ELSE /\ an_cancel' = [result |-> "false", registered |-> FALSE]
            /\ UNCHANGED an_scope
    /\ UNCHANGED <<anVars, an_tg_cancelled, an_shutdown, an_offload, AnFrame>>

\* the add_task calls whose TaskInfo is in self.tasks
AnRegistered == {c \in AnCalls : \E id \in TaskIds : an_tasks[id] = c}

\* shutdown() up to "await self._tg.__aexit__": scope.cancel() on every
\* registered TaskInfo under the lock, then the wait for the task group, or
\* the return when the manager is not started
AnyioShutdown ==
    /\ an_shutdown \in {"idle", "returned", "raised"}
    /\ an_scope' = [c \in AnCalls |->
           IF c \in AnRegistered
           THEN [cancel_called |-> TRUE, by |-> "shutdown", running |-> an_task[c].pc = "coro"]
           ELSE an_scope[c]]
    /\ an_shutdown' = IF an_tg_started THEN "aexit" ELSE "returned"
    /\ UNCHANGED <<anVars, an_tg_cancelled, an_cancel, an_offload, AnFrame>>

\* the task calling shutdown() is cancelled while it waits in __aexit__:
\* the task group cancels its own scope, and with it every child
AnyioHostCancelled ==
    /\ an_shutdown = "aexit"
    /\ ~an_tg_cancelled
    /\ \E c \in AnCalls : AnLive(c)
    /\ an_tg_cancelled' = TRUE
    /\ UNCHANGED <<anVars, an_shutdown, an_scope, an_cancel, an_offload, AnFrame>>

\* __aexit__ returns once every child has ended (raising the cancellation
\* of the host when there was one); finally: _tg = None, _tg_started = False
AnyioShutdownExit ==
    /\ an_shutdown = "aexit"
    /\ \A c \in AnCalls : ~AnLive(c)
    /\ an_shutdown' = IF an_tg_cancelled THEN "raised" ELSE "returned"
    /\ an_tg_started' = FALSE
    /\ an_tg_cancelled' = FALSE
    /\ UNCHANGED <<an_tasks, an_call, an_task, an_scope, an_cancel, an_offload, AnFrame>>

AnNext ==
    \/ AnyioStart
    \/ \E c \in AnCalls, id \in TaskIds, t \in Timeouts : AnyioAddTask(c, id, t)
    \/ \E c \in AnCalls : AnyioAddTaskLocked(c)
    \/ \E c \in AnCalls : AnyioRunTask(c)
    \/ \E c \in AnCalls : AnyioCoroEnd(c)
    \/ \E c \in AnCalls : AnyioTaskFinally(c)
    \/ \E id \in TaskIds : AnyioCancelTask(id)
    \/ AnyioShutdown
    \/ AnyioHostCancelled
    \/ AnyioShutdownExit

\* the event loop runs every ready step of the manager; a user coroutine
\* need not ever end, and nobody has to call the manager
AnFairness ==
    /\ \A c \in AnCalls : WF_vars(AnyioAddTaskLocked(c))
    /\ \A c \in AnCalls : WF_vars(AnyioRunTask(c))
    /\ \A c \in AnCalls : WF_vars(AnyioTaskFinally(c))
    /\ WF_vars(AnyioShutdownExit)

\* AnyioTaskManager: a call returns false only when it found the task_id
\* registered, a call that found it registered started nothing, the entry of
\* a live task is its own, and no two live tasks share a task_id.
AnyioSingleRegistration ==
    /\ \A c \in AnCalls :
          /\ an_call[c].pc = "false" => (an_call[c].saw # 0 /\ an_task[c] = NoTask)
          /\ an_call[c].pc = "true" => an_task[c] # NoTask
          /\ AnLive(c) => an_tasks[an_call[c].task_id] = c
    /\ \A c, d \in AnCalls :
          (c # d /\ AnLive(c) /\ AnLive(d)) => an_call[c].task_id # an_call[d].task_id

\* the task of call c has ended: its coroutine is over and _run_task_inner
\* has left its finally block, with or without the pop
AnEnded(c) == an_task[c].pc \in {"done", "left"}

\* C14: registry cleanup on every terminal outcome.  Every admitted task
\* whose coroutine completes, raises, times out or is cancelled has its
\* entry removed, so once no managed task is alive the registry is empty
\* (and the same task_id can be admitted again).
RegistryCleanup ==
    /\ \A c \in AnCalls : AnEnded(c) => an_tasks[an_call[c].task_id] # c
    /\ (\A c \in AnCalls : ~AnLive(c)) => (\A id \in TaskIds : an_tasks[id] = 0)

\* cancel_task returned true for the task of call c while its coroutine was
\* running
CancelledWhileRunning(c) ==
    an_scope[c].cancel_called /\ an_scope[c].by = "cancel_task" /\ an_scope[c].running

\* C15: cancel_task takes effect.  When cancel_task returns true for a task
\* whose coroutine is still running, the coroutine does not run to normal
\* completion: the task ends in status cancelled and its entry is removed.
\* cancel_task returns false exactly when the task_id is not registered.
CancelTaskTakesEffect ==
    /\ \A c \in AnCalls :
          (CancelledWhileRunning(c) /\ an_task[c].pc \in {"finally", "done", "left"})
              => an_task[c].status = "cancelled"
    /\ \A c \in AnCalls :
          (CancelledWhileRunning(c) /\ AnEnded(c)) => an_tasks[an_call[c].task_id] # c
    /\ an_cancel.result # "none" => (an_cancel.result = "false" <=> ~an_cancel.registered)

\* shutdown() has returned and the manager has not been started since
AnStopped == an_shutdown = "returned" /\ ~an_tg_started

\* C16: shutdown drains and is idempotent.  shutdown() always terminates,
\* also when a registered task never finishes on its own; when it has
\* returned, every task it found registered has been cancelled, no managed
\* coroutine is running and the registry is empty; a further shutdown()
\* returns and leaves that state as it is.
ShutdownDrains ==
    /\ (an_shutdown = "aexit") ~> (an_shutdown # "aexit")
    /\ [](AnStopped =>
            /\ \A c \in AnCalls :
                  (an_scope[c].cancel_called /\ an_scope[c].by = "shutdown")
                      => an_task[c].status = "cancelled"
            /\ \A c \in AnCalls : ~AnLive(c)
            /\ \A id \in TaskIds : an_tasks[id] = 0)
    /\ [][(AnStopped /\ ~an_tg_started' /\ an_call' = an_call)
              => (an_shutdown' = "returned" /\ UNCHANGED <<anVars, an_scope>>)]_vars

-----------------------------------------------------------------------------
(* internal/utils/asyncio_task.py : AsyncTaskManager.add_task and the tasks *)
(* it starts.  add_task keeps self.lock while its task group waits for the  *)
(* child, and the child's finally block needs the same lock.                *)

MaxAsCalls == 3

AsCalls == 1..MaxAsCalls

NoAsCall == [pc |-> "idle", task_id |-> "", timeout |-> 0]
NoAsTask == [pc |-> "none", log |-> "none"]

AsInit ==
    /\ as_tasks = [t \in TaskIds |-> 0]
    /\ as_lock = 0
    /\ as_call = [c \in AsCalls |-> NoAsCall]
    /\ as_task = [c \in AsCalls |-> NoAsTask]

\* the holders of self.semaphore: tasks inside "async with self.semaphore"
\* of _run_task and of _wrapped (run_tasks_return_results)
AsSemaphoreHeld ==
    Cardinality({c \in AsCalls : as_task[c].pc = "coro"})
  + (IF fo_mgr = "asyncio"
     THEN Cardinality({i \in 1..Len(fo_item) : fo_item[i] = "coro"}) ELSE 0)

\* add_task up to "async with self.lock"
AsyncAddTask(c, task_id, timeout) ==
    /\ as_call[c].pc = "idle"
    /\ \A d \in AsCalls : d < c => as_call[d].pc # "idle"
    /\ as_call' = [as_call EXCEPT ![c] =
          [pc |-> "lock_wait", task_id |-> task_id, timeout |-> timeout]]
    /\ UNCHANGED <<as_tasks, as_lock, as_task, AsFrame>>

\* which coroutine of call c is queued on self.lock
AsLockWaiter(c) ==
    IF as_call[c].pc = "lock_wait" THEN "add_task"
    ELSE IF as_task[c].pc = "finally" THEN "_run_task"
    ELSE "none"

\* self.lock is granted to a waiter.
\*  - add_task: a registered task_id is rejected and the lock released;
\*    otherwise a task group is opened, _run_task is started in it, the
\*    group is stored in self.tasks and add_task waits in the group's exit
\*    for the child, still holding the lock.
\*  - _run_task (finally): pops the entry and releases the lock; the child
\*    is then finished, so the task group of add_task exits, add_task
\*    leaves its own "async with self.lock" and returns True.
AsyncLockAcquire(c) ==
    /\ as_lock = 0
    /\ AsLockWaiter(c) # "none"
    /\ LET id == as_call[c].task_id IN
       IF AsLockWaiter(c) = "add_task"
       THEN IF as_tasks[id] # 0
            THEN /\ as_call' = [as_call EXCEPT ![c].pc = "false"]
                 /\ UNCHANGED <<as_tasks, as_lock, as_task>>
            ELSE /\ as_tasks' = [as_tasks EXCEPT ![id] = c]
                 /\ as_task' = [as_task EXCEPT ![c].pc = "semaphore"]
                 /\ as_call' = [as_call EXCEPT ![c].pc = "join"]
                 /\ as_lock' = c
       ELSE /\ as_tasks' = [as_tasks EXCEPT ![id] = 0]
            /\ as_task' = [as_task EXCEPT ![c].pc = "done"]
            /\ as_call' = [as_call EXCEPT ![c].pc = "true"]
            /\ as_lock' = 0
    /\ UNCHANGED AsFrame

\* _run_task enters the semaphore and calls coro_func
AsyncRunTask(c) ==
    /\ as_task[c].pc = "semaphore"
    /\ AsSemaphoreHeld < max_tasks
    /\ as_task' = [as_task EXCEPT ![c].pc = "coro"]
    /\ UNCHANGED <<as_tasks, as_lock, as_call, AsFrame>>

\* coro_func returns, raises or is timed out: the outcome is logged, the
\* semaphore released, and the finally block queues on self.lock
AsyncCoroEnd(c) ==
    /\ as_task[c].pc = "coro"
    /\ \E outcome \in CoroOutcomes(as_call[c].timeout) :
          as_task' = [as_task EXCEPT ![c] = [pc |-> "finally", log |-> outcome]]
    /\ UNCHANGED <<as_tasks, as_lock, as_call, AsFrame>>

AsNext ==
    \/ \E c \in AsCalls, id \in TaskIds, t \in Timeouts : AsyncAddTask(c, id, t)
    \/ \E c \in AsCalls : AsyncLockAcquire(c)
    \/ \E c \in AsCalls : AsyncRunTask(c)
    \/ \E c \in AsCalls : AsyncCoroEnd(c)

\* the event loop runs every coroutine that is ready
AsFairness ==
    \A c \in AsCalls : /\ WF_vars(AsyncLockAcquire(c))
                       /\ WF_vars(AsyncRunTask(c))
                       /\ WF_vars(AsyncCoroEnd(c))

\* call c was made for a task_id whose admitted task has not ended
AsDuplicate(c) ==
    /\ as_call[c].pc = "lock_wait"
    /\ \E d \in AsCalls \ {c} :
          /\ as_tasks[as_call[c].task_id] = d
          /\ as_task[d].pc \in {"semaphore", "coro"}

\* C1: in-process single registration.  An add_task call made for a
\* task_id whose earlier admitted task has not reached a terminal outcome
\* returns false (and so starts no second coroutine).
AddTaskDuplicateReturnsFalse ==
    \A c \in AsCalls : AsDuplicate(c) ~> (as_call[c].pc = "false")

-----------------------------------------------------------------------------
(* AsyncTaskManager.run_tasks_return_results and                            *)
(* AnyioTaskManager.run_gather_with_concurrency: one call of either method. *)

MaxArgs == 3

\* the argument tuples; coro_func is a fixed function of its argument
FoArgs == {"v1", "v2", "none", "raise", "slow"}
FoArgLists == UNION {[1..n -> FoArgs] : n \in 0..MaxArgs}
FoManagers == {"asyncio", "anyio"}

\* the values a slot of the results list can hold
None == [kind |-> "none", val |-> ""]
Value(v) == [kind |-> "value", val |-> v]
ErrorMsg(m) == [kind |-> "error", val |-> m]

\* "if timeout:" (asyncio_task.py) / "if timeout and timeout > 0:" (anyio)
TimeoutArmed(mgr, timeout) ==
    IF mgr = "asyncio" THEN timeout # 0 ELSE timeout # 0 /\ timeout > 0

\* what "await coro_func(*args)" does: returns a value, returns None,
\* raises, or runs longer than any timeout
CoroFunc(arg, armed) ==
    CASE arg = "v1"    -> [how |-> "return", val |-> Value("r1")]
      [] arg = "v2"    -> [how |-> "return", val |-> Value("r2")]
      [] arg = "none"  -> [how |-> "return", val |-> None]
      [] arg = "raise" -> [how |-> "failed", val |-> None]
      [] arg = "slow"  -> IF armed THEN [how |-> "timed out", val |-> None]
                                   ELSE [how |-> "return", val |-> Value("r_slow")]

\* what _wrapped stores in results[index]
WrappedSlot(mgr, arg, timeout) ==
    LET o == CoroFunc(arg, TimeoutArmed(mgr, timeout)) IN
    IF o.how = "return" THEN o.val
    ELSE IF mgr = "asyncio" THEN ErrorMsg(o.how)
    ELSE None

FoInit ==
    /\ fo_mgr = "none"
    /\ fo_args = <<>>
    /\ fo_timeout = 0
    /\ fo_item = <<>>
    /\ fo_results = <<>>
    /\ fo_returned = FALSE

\* the method is called: results = [None] * len(args_tuple_list) and one
\* _wrapped child is started per argument tuple
FanoutCall(mgr, args, timeout) ==
    /\ fo_mgr = "none"
    /\ fo_mgr' = mgr
    /\ fo_args' = args
    /\ fo_timeout' = timeout
    /\ fo_results' = [i \in 1..Len(args) |-> None]
    /\ fo_item' = [i \in 1..Len(args) |-> "wait"]
    /\ UNCHANGED <<fo_returned, FoFrame>>

FoSlotsTaken == IF fo_mgr = "asyncio" THEN AsSemaphoreHeld ELSE AnLimiterBorrowed

\* a _wrapped child enters the semaphore / limiter and calls coro_func
FanoutItemStart(i) ==
    /\ i \in 1..Len(fo_item)
    /\ fo_item[i] = "wait"
    /\ FoSlotsTaken < max_tasks
    /\ fo_item' = [fo_item EXCEPT ![i] = "coro"]
    /\ UNCHANGED <<fo_mgr, fo_args, fo_timeout, fo_results, fo_returned, FoFrame>>

\* coro_func ends; _wrapped stores the slot and releases the semaphore
FanoutItemEnd(i) ==
    /\ i \in 1..Len(fo_item)
    /\ fo_item[i] = "coro"
    /\ fo_item' = [fo_item EXCEPT ![i] = "done"]
    /\ fo_results' = [fo_results EXCEPT ![i] = WrappedSlot(fo_mgr, fo_args[i], fo_timeout)]
    /\ UNCHANGED <<fo_mgr, fo_args, fo_timeout, fo_returned, FoFrame>>

\* the task group exits once every child has finished; results is returned
FanoutReturn ==
    /\ fo_mgr # "none"
    /\ ~fo_returned
    /\ \A i \in 1..Len(fo_item) : fo_item[i] = "done"
    /\ fo_returned' = TRUE
    /\ UNCHANGED <<fo_mgr, fo_args, fo_timeout, fo_item, fo_results, FoFrame>>

FoNext ==
    \/ \E mgr \in FoManagers, args \in FoArgLists, t \in Timeouts : FanoutCall(mgr, args, t)
    \/ \E i \in 1..MaxArgs : FanoutItemStart(i)
    \/ \E i \in 1..MaxArgs : FanoutItemEnd(i)
    \/ FanoutReturn

\* C5: fan-out isolation and order.  The returned list has one element per
\* argument tuple, in input order; the slot of a call that returned holds
\* its result, and the slot of a call that raised or timed out holds a
\* value that reflects the failure.
FanoutIsolationAndOrder ==
    fo_returned =>
        /\ Len(fo_results) = Len(fo_args)
        /\ \A i \in 1..Len(fo_args) :
              LET o == CoroFunc(fo_args[i], TimeoutArmed(fo_mgr, fo_timeout)) IN
              IF o.how = "return" THEN fo_results[i] = o.val
              ELSE fo_results[i].kind = "error"

-----------------------------------------------------------------------------
(* pkg/anyio_task_manager.py : run_in_thread, run_in_process, and the one   *)
(* CapacityLimiter shared by every way of running work under the manager.  *)

\* the argument combinations of run_in_thread (timeout, cancellable) and
\* run_in_process (timeout) that are tried
OffloadArgs ==
    {[kind |-> "thread", timeout |-> t, cancellable |-> cn] : t \in Timeouts, cn \in BOOLEAN}
    \cup {[kind |-> "process", timeout |-> t, cancellable |-> FALSE] : t \in Timeouts}

\* run_in_thread / run_in_process up to "async with self._limiter"
RunIn(k, a) ==
    /\ an_offload[k].pc = "idle"
    /\ \A j \in Offloads : j < k => an_offload[j].pc # "idle"
    /\ an_offload' = [an_offload EXCEPT ![k] =
          [pc |-> "limiter", kind |-> a.kind, timeout |-> a.timeout,
           cancellable |-> a.cancellable]]
    /\ UNCHANGED <<anVars, an_tg_cancelled, an_shutdown, an_scope, an_cancel, AnFrame>>

\* the call enters the limiter and hands sync_func to a worker
OffloadStart(k) ==
    /\ an_offload[k].pc = "limiter"
    /\ AnLimiterBorrowed < max_tasks
    /\ an_offload' = [an_offload EXCEPT ![k].pc = "running"]
    /\ UNCHANGED <<anVars, an_tg_cancelled, an_shutdown, an_scope, an_cancel, AnFrame>>

\* sync_func returns or raises in the worker; the call leaves the limiter
OffloadEnd(k) ==
    /\ an_offload[k].pc = "running"
    /\ an_offload' = [an_offload EXCEPT ![k].pc = "done"]
    /\ UNCHANGED <<anVars, an_tg_cancelled, an_shutdown, an_scope, an_cancel, AnFrame>>

\* fail_after(timeout) fires while the call waits for the worker.  A thread
\* is only abandoned when cancellable is set: the call leaves the limiter
\* and sync_func goes on in its thread.  A worker process is killed.  A
\* thread call that is not cancellable keeps waiting (OffloadEnd).
OffloadTimeout(k) ==
    /\ an_offload[k].pc = "running"
    /\ an_offload[k].timeout > 0
    /\ an_offload[k].kind = "process" \/ an_offload[k].cancellable
    /\ an_offload' = [an_offload EXCEPT ![k].pc =
          IF an_offload[k].kind = "thread" THEN "abandoned" ELSE "done"]
    /\ UNCHANGED <<anVars, an_tg_cancelled, an_shutdown, an_scope, an_cancel, AnFrame>>

\* sync_func ends in a thread whose call was abandoned
OffloadWorkerEnd(k) ==
    /\ an_offload[k].pc = "abandoned"
    /\ an_offload' = [an_offload EXCEPT ![k].pc = "done"]
    /\ UNCHANGED <<anVars, an_tg_cancelled, an_shutdown, an_scope, an_cancel, AnFrame>>

\* the argument lists of the fan-out calls made next to add_task and the
\* offloaded calls
CapArgLists == {[i \in 1..n |-> "v1"] : n \in 0..MaxCapArgs}

\* one manager used in all its ways: add_task, run_gather_with_concurrency,
\* run_in_thread and run_in_process
AnCapNext ==
    \/ AnyioStart
    \/ \E c \in AnCalls, id \in TaskIds : AnyioAddTask(c, id, 0)
    \/ \E c \in AnCalls : AnyioAddTaskLocked(c)
    \/ \E c \in AnCalls : AnyioRunTask(c)
    \/ \E c \in AnCalls : AnyioCoroEnd(c)
    \/ \E c \in AnCalls : AnyioTaskFinally(c)
    \/ \E k \in Offloads, a \in OffloadArgs : RunIn(k, a)
    \/ \E k \in Offloads : OffloadStart(k)
    \/ \E k \in Offloads : OffloadEnd(k)
    \/ \E k \in Offloads : OffloadTimeout(k)
    \/ \E k \in Offloads : OffloadWorkerEnd(k)
    \/ \E args \in CapArgLists : FanoutCall("anyio", args, 0)
    \/ \E i \in 1..MaxCapArgs : FanoutItemStart(i)
    \/ \E i \in 1..MaxCapArgs : FanoutItemEnd(i)
    \/ FanoutReturn

\* as AnFairness, and every coroutine and offloaded call that holds a slot
\* of the limiter ends
AnCapFairness ==
    /\ \A c \in AnCalls : WF_vars(AnyioAddTaskLocked(c))
    /\ \A c \in AnCalls : WF_vars(AnyioRunTask(c))
    /\ \A c \in AnCalls : WF_vars(AnyioCoroEnd(c))
    /\ \A c \in AnCalls : WF_vars(AnyioTaskFinally(c))
    /\ \A k \in Offloads : WF_vars(OffloadStart(k))
    /\ \A k \in Offloads : WF_vars(OffloadEnd(k))
    /\ \A i \in 1..MaxCapArgs : WF_vars(FanoutItemStart(i))
    /\ \A i \in 1..MaxCapArgs : WF_vars(FanoutItemEnd(i))

\* the user coroutines and offloaded calls executing under the manager:
\* tasks admitted by add_task, fan-out items, and run_in_thread /
\* run_in_process calls
AnExecuting ==
    Cardinality({c \in AnCalls : an_task[c].pc = "coro"})
  + Cardinality({i \in 1..Len(fo_item) : fo_item[i] = "coro"})
  + Cardinality({k \in Offloads : an_offload[k].pc = "running"})

-----------------------------------------------------------------------------
(* pkg/aps_task_manager.py : ApsSchedulerTool.  A registration is the       *)
(* argument list of one register_* call; self._scheduler.add_job builds the *)
(* Job (and, for register_job, the trigger) from it and raises when the     *)
(* arguments are not acceptable.                                            *)

MaxRegs   == 3
MaxStarts == 3

\* "good": add_job accepts the arguments; "bad": add_job raises on them
JobKinds == {"good", "bad"}

CrInit ==
    /\ cr_started = FALSE
    /\ cr_pending = <<>>
    /\ cr_job = <<>>
    /\ cr_added = <<>>
    /\ cr_running = FALSE
    /\ cr_starts = 0

\* register_job: added at once when started, queued otherwise.  When
\* add_job raises, register_job raises and nothing is registered.
RegisterJob(kind) ==
    /\ Len(cr_job) < MaxRegs
    /\ IF cr_started
       THEN IF kind = "good"
            THEN /\ cr_job' = Append(cr_job, kind)
                 /\ cr_added' = Append(cr_added, 1)
            ELSE UNCHANGED <<cr_job, cr_added>>
       ELSE /\ cr_job' = Append(cr_job, kind)
            /\ cr_added' = Append(cr_added, 0)
    /\ cr_pending' = IF cr_started THEN cr_pending ELSE Append(cr_pending, Len(cr_job) + 1)
    /\ UNCHANGED <<cr_started, cr_running, cr_starts, CrFrame>>

\* position of the first pending job add_job raises on, 0 when there is none
FirstBad ==
    IF \E k \in 1..Len(cr_pending) : cr_job[cr_pending[k]] = "bad"
    THEN CHOOSE k \in 1..Len(cr_pending) :
            /\ cr_job[cr_pending[k]] = "bad"
            /\ \A j \in 1..(k - 1) : cr_job[cr_pending[j]] = "good"
    ELSE 0

\* the pending jobs the loop of start() hands to add_job before it ends
HandedOver ==
    IF FirstBad = 0 THEN Range(cr_pending)
    ELSE {cr_pending[j] : j \in 1..(FirstBad - 1)}

\* self._scheduler.start(): raises when already running, otherwise starts
\* or raises (no running event loop)
SchedulerStartOutcomes == IF cr_running THEN {"raise"} ELSE {"ok", "raise"}

\* start(): nothing when _started; otherwise every pending job is passed to
\* add_job in order, the queue is cleared, the scheduler is started and
\* _started is set.  An exception of add_job or of the scheduler's start
\* leaves start() at that point.
Start ==
    IF cr_started
    THEN UNCHANGED vars
    ELSE /\ cr_starts < MaxStarts
         /\ cr_starts' = cr_starts + 1
         /\ cr_added' = [r \in 1..Len(cr_added) |->
                            IF r \in HandedOver THEN cr_added[r] + 1 ELSE cr_added[r]]
         /\ IF FirstBad # 0
            THEN UNCHANGED <<cr_pending, cr_started, cr_running>>
            ELSE /\ cr_pending' = <<>>
                 /\ \E o \in SchedulerStartOutcomes :
                       /\ cr_started' = (o = "ok")
                       /\ cr_running' = (cr_running \/ o = "ok")
         /\ UNCHANGED <<cr_job, CrFrame>>

\* shutdown(): nothing when not _started; otherwise the scheduler is shut
\* down (or raises) and _started is cleared in the finally block
Shutdown ==
    /\ cr_started
    /\ \E o \in {"ok", "raise"} : cr_running' = (o = "raise")
    /\ cr_started' = FALSE
    /\ UNCHANGED <<cr_pending, cr_job, cr_added, cr_starts, CrFrame>>

CrNext ==
    \/ \E kind \in JobKinds : RegisterJob(kind)
    \/ Start
    \/ Shutdown

\* C6: cron pre-start registration.  Over any sequence of register and
\* start calls no registered job is handed to the underlying scheduler more
\* than once.
CronJobAddedOnce ==
    \A r \in 1..Len(cr_added) : cr_added[r] <= 1

-----------------------------------------------------------------------------
(* The query and update builders: internal/utils/orm_helpers.py             *)
(* ("orm_helpers") and internal/dao/__init__.py ("dao"), run against one    *)
(* table of an entity that has every ModelMixin column.                     *)

MaxTime == 2
MaxRows == 2

RowIds == 1..MaxRows
Vals == {"a", "b"}
Builders == {"orm_helpers", "dao"}

\* get_user_id_context_var(): the user of the current request
CtxUserId == 1

\* cls.__table__.columns of the entity
Columns == {"id", "val", "updated_at", "deleted_at", "updater_id"}

\* the keys a caller passes to update(**kwargs) / values(**kwargs); "val"
\* is passed with the value "b"
FieldNames == {"val", "nickname", "is_admin"}

\* include_deleted as passed by the caller: left out (None), False or True
IncludeDeleted == {"None", "False", "True"}

\* the conditions added to a query
Conds == {"none", "val = a", "val = b"}

NoOp == [op |-> "none"]

OrmInit ==
    /\ orm_rows = [r \in RowIds |->
                      [val |-> "a", updated_at |-> 0, deleted_at |-> 0, updater_id |-> 0]]
    /\ orm_now = 1
    /\ orm_last = NoOp

OrmTick ==
    /\ orm_now < MaxTime
    /\ orm_now' = orm_now + 1
    /\ UNCHANGED <<orm_rows, orm_last, OrmFrame>>

Matches(row, cond) ==
    CASE cond = "none"    -> TRUE
      [] cond = "val = a" -> row.val = "a"
      [] cond = "val = b" -> row.val = "b"

\* whether the statement carries "deleted_at IS NULL".
\* orm_helpers: added by __init__ and by all()/first() when their own
\* include_deleted "is False"; dao: always added by __init__.
FiltersDeleted(builder, ctor, term) ==
    IF builder = "dao" THEN TRUE
    ELSE ctor = "False" \/ term = "False"

\* the rows sess.execute(stmt) selects
Select(builder, ctor, term, cond) ==
    {r \in RowIds :
        /\ Matches(orm_rows[r], cond)
        /\ FiltersDeleted(builder, ctor, term) => orm_rows[r].deleted_at = 0}

\* QueryBuilder(...).where(cond).all(...); the dao builder takes no
\* include_deleted argument
Query(builder, ctor, term, cond) ==
    /\ builder = "dao" => (ctor = "None" /\ term = "None")
    /\ orm_last' = [op |-> "query", builder |-> builder, ctor |-> ctor, term |-> term,
                    cond |-> cond,
                    result |-> {[id |-> r, deleted_at |-> orm_rows[r].deleted_at] :
                                   r \in Select(builder, ctor, term, cond)}]
    /\ UNCHANGED <<orm_rows, orm_now, OrmFrame>>

\* the rows an update statement addresses: WHERE id = instance.id for an
\* instance updater (target is the id), every row for a class updater (0)
Targets(target) == IF target = 0 THEN RowIds ELSE {target}

\* the SET clause each builder executes for the supplied field names, as a
\* function from column name to value; the empty function when the builder
\* executes nothing.
\* orm_helpers: update() keeps the real columns; execute() returns when
\*   none is left, otherwise update_stmt adds updated_at and updater_id.
\* dao: values() keeps the real columns; execute() always sets updated_at.
SetClause(builder, fields) ==
    LET kept == fields \cap Columns
        supplied == [c \in kept |-> "b"]
    IN  IF builder = "orm_helpers"
        THEN IF kept = {} THEN supplied
             ELSE [c \in kept \cup {"updated_at", "updater_id"} |->
                      IF c \in kept THEN supplied[c]
                      ELSE IF c = "updated_at" THEN orm_now ELSE CtxUserId]
        ELSE [c \in kept \cup {"updated_at"} |->
                 IF c = "updated_at" THEN orm_now ELSE supplied[c]]

ApplySet(row, set) ==
    [c \in DOMAIN row |-> IF c \in DOMAIN set THEN set[c] ELSE row[c]]

\* UpdateBuilder(...).update(**fields).execute() /
\* UpdateBuilder(...).values(**fields).execute()
Update(builder, target, fields) ==
    /\ orm_rows' = [r \in RowIds |->
                       IF r \in Targets(target)
                       THEN ApplySet(orm_rows[r], SetClause(builder, fields))
                       ELSE orm_rows[r]]
    /\ orm_last' = [op |-> "update", builder |-> builder, target |-> target,
                    fields |-> fields, changed |-> (orm_rows' # orm_rows)]
    /\ UNCHANGED <<orm_now, OrmFrame>>

\* orm_helpers UpdateBuilder(model_ins=...).soft_delete().execute():
\* deleted_at = now, updated_at follows deleted_at, updater_id is stamped
SoftDelete(r) ==
    /\ orm_rows[r].deleted_at = 0
    /\ orm_rows' = [orm_rows EXCEPT ![r] =
          ApplySet(orm_rows[r], [c \in {"deleted_at", "updated_at", "updater_id"} |->
                                    IF c = "updater_id" THEN CtxUserId ELSE orm_now])]
    /\ orm_last' = [op |-> "soft_delete", target |-> r]
    /\ UNCHANGED <<orm_now, OrmFrame>>

OrmNext ==
    \/ OrmTick
    \/ \E b \in Builders, ctor \in IncludeDeleted, term \in IncludeDeleted, cond \in Conds :
          Query(b, ctor, term, cond)
    \/ \E b \in Builders, target \in {0} \cup RowIds, fields \in SUBSET FieldNames :
          Update(b, target, fields)
    \/ \E r \in RowIds : SoftDelete(r)

\* C8: soft-delete default exclusion.  A query built and executed without
\* include_deleted returns no row whose deleted_at is non-null.
QueryDefaultExcludesDeleted ==
    (orm_last.op = "query" /\ orm_last.ctor = "None" /\ orm_last.term = "None")
        => \A x \in orm_last.result : x.deleted_at = 0

\* C9: update whitelisting.  An executed update whose supplied field names
\* are all not real columns leaves every column of every row unchanged.
UpdateUnknownFieldsNoChange ==
    (orm_last.op = "update" /\ orm_last.fields # {} /\ orm_last.fields \cap Columns = {})
        => ~orm_last.changed

-----------------------------------------------------------------------------
(* internal/middleware/auth.py : AuthMiddleware.dispatch, and               *)
(* internal/core/auth_token.py : verify_token.  A path is a sequence of     *)
(* string pieces whose concatenation is the URL path; the first piece is    *)
(* the prefix the code tests with startswith.                               *)

auth_token_white ==
    {<<"/auth/login">>, <<"/auth/register">>, <<"/docs">>, <<"/openapi", ".json">>,
     <<"/v1/auth/login_by_account">>, <<"/v1/auth/login_by_phone">>,
     <<"/v1/auth/verify_token">>}

\* the request paths tried
Paths ==
    {<<"/openapi", ".json">>, <<"/openapi", "/v1/report">>, <<"/docs">>, <<"/docs", "/x">>,
     <<"/v1/auth/login_by_phone">>, <<"/test", "/hello">>, <<"/v1/user/me">>}

CacheTokens == {"t1", "t2"}
HeaderTokens == {""} \cup CacheTokens       \* request.headers.get("Authorization", "")
MwUserIds == {0, 1}                         \* 0: user data whose "id" is missing or falsy

NoReq == [path |-> <<>>, token |-> ""]

\* url_path.startswith(prefix)
StartsWith(path, prefix) == Len(path) >= 1 /\ path[1] = prefix

\* the three path classes of dispatch
Signed(path) == StartsWith(path, "/openapi") /\ path # <<"/openapi", ".json">>
Bypass(path) == ~Signed(path) /\ (path \in auth_token_white \/ StartsWith(path, "/test"))
Protected(path) == ~Signed(path) /\ ~Bypass(path)

\* signature_auth_helper.verify(...): accepts or rejects the three headers,
\* or raises (the signature section below computes which)
SignatureOutcomes == {"true", "false", "raise"}

\* a cache read answers or fails (the cache is unreachable)
CacheOutcomes == {"answer", "fail"}

MwInit ==
    /\ mw_tokens = [t \in CacheTokens |-> -1]
    /\ mw_lists = [u \in MwUserIds |-> {}]
    /\ mw_req = NoReq
    /\ mw_pc = "idle"
    /\ mw_user_data = -1
    /\ mw_listed = FALSE
    /\ mw_checked = FALSE
    /\ mw_ctx = 0
    /\ mw_handler_ctx = 0
    /\ mw_resp = "none"

\* a login stores the token's user data and appends the token to the list
CacheLogin(t, u) ==
    /\ mw_tokens' = [mw_tokens EXCEPT ![t] = u]
    /\ mw_lists' = [mw_lists EXCEPT ![u] = @ \cup {t}]
    /\ UNCHANGED <<mw_req, mw_pc, mw_user_data, mw_listed, mw_checked, mw_ctx,
                   mw_handler_ctx, mw_resp, MwFrame>>

\* the token key expires
CacheExpire(t) ==
    /\ mw_tokens[t] # -1
    /\ mw_tokens' = [mw_tokens EXCEPT ![t] = -1]
    /\ UNCHANGED <<mw_lists, mw_req, mw_pc, mw_user_data, mw_listed, mw_checked, mw_ctx,
                   mw_handler_ctx, mw_resp, MwFrame>>

\* the token is evicted from a user's list
CacheEvict(t, u) ==
    /\ t \in mw_lists[u]
    /\ mw_lists' = [mw_lists EXCEPT ![u] = @ \ {t}]
    /\ UNCHANGED <<mw_tokens, mw_req, mw_pc, mw_user_data, mw_listed, mw_checked, mw_ctx,
                   mw_handler_ctx, mw_resp, MwFrame>>

\* dispatch up to the call of verify_token: the signature branch, the
\* whitelist and /test bypass, and the empty-token test
Dispatch(path, token) ==
    /\ mw_pc = "idle"
    /\ mw_req' = [path |-> path, token |-> token]
    /\ mw_user_data' = -1
    /\ mw_listed' = FALSE
    /\ mw_checked' = FALSE
    /\ mw_ctx' = 0
    /\ mw_handler_ctx' = 0
    /\ IF Signed(path)
       THEN /\ \E ok \in SignatureOutcomes :
                   mw_resp' = CASE ok = "true" -> "handler"
                                [] ok = "false" -> "401"
                                [] OTHER -> "error"
            /\ mw_pc' = "idle"
       ELSE IF path \in auth_token_white \/ StartsWith(path, "/test")
       THEN mw_resp' = "handler" /\ mw_pc' = "idle"
       ELSE IF token = ""
       THEN mw_resp' = "401" /\ mw_pc' = "idle"
       ELSE mw_resp' = "none" /\ mw_pc' = "get_token_value"
    /\ UNCHANGED <<mw_tokens, mw_lists, MwFrame>>

\* verify_token: user_data = await Cache.get_token_value(token)
GetTokenValue ==
    /\ mw_pc = "get_token_value"
    /\ \E o \in CacheOutcomes :
          IF o = "fail"
          THEN /\ mw_resp' = "error"
               /\ mw_pc' = "idle"
               /\ UNCHANGED <<mw_user_data, mw_checked>>
          ELSE /\ mw_checked' = TRUE
               /\ mw_user_data' = mw_tokens[mw_req.token]
               /\ IF mw_tokens[mw_req.token] = -1
                  THEN mw_resp' = "401" /\ mw_pc' = "idle"
                  ELSE mw_resp' = "none" /\ mw_pc' = "get_list"
    /\ UNCHANGED <<mw_tokens, mw_lists, mw_req, mw_listed, mw_ctx, mw_handler_ctx, MwFrame>>

UserIdMissingNever(user_id) == FALSE

\* "if not user_id"
UserIdMissing(user_id) == user_id = 0

\* verify_token: the token list is read and searched; back in dispatch the
\* user id is tested, stored in the context variable, and call_next runs
GetList ==
    /\ mw_pc = "get_list"
    /\ mw_pc' = "idle"
    /\ \E o \in CacheOutcomes :
          IF o = "fail"
          THEN /\ mw_resp' = "error"
               /\ UNCHANGED <<mw_listed, mw_ctx, mw_handler_ctx>>
          ELSE LET listed == mw_req.token \in mw_lists[mw_user_data] IN
               /\ mw_listed' = listed
               /\ IF ~listed \/ UserIdMissing(mw_user_data)
                  THEN /\ mw_resp' = "401"
                       /\ UNCHANGED <<mw_ctx, mw_handler_ctx>>
                  ELSE /\ mw_ctx' = mw_user_data
                       /\ mw_handler_ctx' = mw_ctx'
                       /\ mw_resp' = "handler"
    /\ UNCHANGED <<mw_tokens, mw_lists, mw_req, mw_user_data, mw_checked, MwFrame>>

MwNext ==
    \/ \E t \in CacheTokens, u \in MwUserIds : CacheLogin(t, u)
    \/ \E t \in CacheTokens : CacheExpire(t)
    \/ \E t \in CacheTokens, u \in MwUserIds : CacheEvict(t, u)
    \/ \E path \in Paths, token \in HeaderTokens : Dispatch(path, token)
    \/ GetTokenValue
    \/ GetList

\* the credential of the request verified and yielded a non-empty user id:
\* the token key held user data, the token was in that user's list, and
\* the id is non-empty
Verified == mw_user_data # -1 /\ mw_listed /\ mw_user_data # 0

\* dispatch has answered a request
Answered == mw_req # NoReq /\ mw_pc = "idle"

\* on a protected path the handler runs only after a verified credential,
\* with the verified user id in the request context
HandlerOnlyIfVerified ==
    (Answered /\ Protected(mw_req.path) /\ mw_resp = "handler")
        => (Verified /\ mw_handler_ctx = mw_user_data)

\* whitelisted and /test paths reach the handler and no credential is read
BypassReachesHandler ==
    (Answered /\ Bypass(mw_req.path)) => (mw_resp = "handler" /\ ~mw_checked)

-----------------------------------------------------------------------------
(* internal/core/signature.py, core/signature.py : HMAC request signing,   *)
(* and the signature branch of AuthMiddleware.dispatch.  Header values are *)
(* strings, written as sequences of one-character strings; a header that   *)
(* is absent reads as None.                                                *)

MaxSgTicks == 2     \* clock advances explored
MaxSgReqs == 2      \* signed requests explored

\* HMACSigner.__init__: timestamp_tolerance
timestamp_tolerance == 300

\* the clock at start-up, and the steps by which it advances
SgEpoch == 20000
ClockSteps == {timestamp_tolerance}

\* request.headers.get(name): the value, or None when the header is absent
Header(v) == [present |-> TRUE, val |-> v]
Absent == [present |-> FALSE, val |-> <<>>]

DigitChars == <<"0", "1", "2", "3", "4", "5", "6", "7", "8", "9">>
IsDigit(c) == \E i \in 1..10 : DigitChars[i] = c
DigitVal(c) == (CHOOSE i \in 1..10 : DigitChars[i] = c) - 1

\* str(n) for an integer n
RECURSIVE StrNat(_)
StrNat(n) == IF n < 10 THEN <<DigitChars[n + 1]>>
             ELSE Append(StrNat(n \div 10), DigitChars[(n % 10) + 1])
StrInt(n) == IF n < 0 THEN <<"-">> \o StrNat(-n) ELSE StrNat(n)

\* int(s) for a string s: an optional sign and one or more digits give the
\* number; anything else is a ValueError
RECURSIVE NatOf(_)
NatOf(s) == IF Len(s) = 0 THEN 0
            ELSE 10 * NatOf(SubSeq(s, 1, Len(s) - 1)) + DigitVal(s[Len(s)])
Signed1(s) == Len(s) >= 1 /\ s[1] \in {"-", "+"}
Unsigned(s) == IF Signed1(s) THEN Tail(s) ELSE s
IsIntStr(s) == Len(Unsigned(s)) >= 1 /\ \A i \in 1..Len(Unsigned(s)) : IsDigit(Unsigned(s)[i])
IntOf(s) == IF Signed1(s) /\ s[1] = "-" THEN -NatOf(Unsigned(s)) ELSE NatOf(Unsigned(s))

is_timestamp_valid_ge(request_time, current_time) ==
    IF ~request_time.present \/ ~IsIntStr(request_time.val)
    THEN "raise"
    ELSE IF (current_time - IntOf(request_time.val)) >= timestamp_tolerance
    THEN "false"
    ELSE "true"

\* HMACSigner.is_timestamp_valid of internal/core/signature.py: int() of a
\* string that is no integer, or of None, is caught by "except Exception"
\* and raised again as HTTPException(500)
is_timestamp_valid(request_time, current_time) ==
    IF ~request_time.present \/ ~IsIntStr(request_time.val)
    THEN "raise"
    ELSE IF (current_time - IntOf(request_time.val)) > timestamp_tolerance
    THEN "false"
    ELSE "true"

\* HMACSigner.is_timestamp_valid of core/signature.py: a ValueError gives
\* False; the TypeError of int(None) is not caught
is_timestamp_valid_core(request_time, current_time) ==
    IF ~request_time.present
    THEN "raise"
    ELSE IF ~IsIntStr(request_time.val)
    THEN "false"
    ELSE IF (current_time - IntOf(request_time.val)) > timestamp_tolerance
    THEN "false"
    ELSE "true"

\* f"{v}" of a header value: None prints as "None"
Fmt(h) == IF h.present THEN h.val ELSE <<"N", "o", "n", "e">>

\* generate_signature: the items sorted by key ("nonce" before "timestamp"),
\* joined as k=v with "&", and the HMAC of that message under the key.  The
\* digest is kept symbolic: equal exactly when key and message are equal.
Message(x_timestamp, x_nonce) ==
    <<"n", "o", "n", "c", "e", "=">> \o Fmt(x_nonce) \o <<"&">>
        \o <<"t", "i", "m", "e", "s", "t", "a", "m", "p", "=">> \o Fmt(x_timestamp)
generate_signature(secret_key, x_timestamp, x_nonce) ==
    <<secret_key, Message(x_timestamp, x_nonce)>>

SECRET_KEY == "secret"

\* HMACSigner.verify_signature: hmac.compare_digest(expected, signature)
\* raises TypeError when signature is None
hmac_verify(x_timestamp, x_nonce, x_signature) ==
    IF ~x_signature.present
    THEN "raise"
    ELSE IF generate_signature(SECRET_KEY, x_timestamp, x_nonce) = x_signature.val
    THEN "true"
    ELSE "false"

\* verify_signature(x_signature, x_timestamp, x_nonce)
verify_signature(x_signature, x_timestamp, x_nonce, current_time) ==
    LET ts == is_timestamp_valid(x_timestamp, current_time) IN
    IF ts # "true" THEN ts
    ELSE hmac_verify(x_timestamp, x_nonce, x_signature)

\* signature_auth_helper.verify(signature=, timestamp=, nonce=): the check
\* of the three headers, made with the signer above
signature_auth_helper_verify(signature, timestamp, nonce, current_time) ==
    verify_signature(signature, timestamp, nonce, current_time)

\* the headers a caller may send at clock reading now
TsAges == {-10000, 0, timestamp_tolerance, timestamp_tolerance + 1}
TimestampHeaders(now) ==
    {Header(StrInt(now - a)) : a \in TsAges} \cup {Header(<<"a", "b">>), Absent}
NonceHeaders == {Header(<<"x">>), Absent}
SignatureHeaders(x_timestamp, x_nonce) ==
    {Header(generate_signature(SECRET_KEY, x_timestamp, x_nonce)),
     Header(generate_signature("other", x_timestamp, x_nonce)),
     Absent}

NoSgReq == [signature |-> Absent, timestamp |-> Absent, nonce |-> Absent, sent |-> FALSE]

SgInit ==
    /\ sg_now = SgEpoch
    /\ sg_ticks = 0
    /\ sg_reqs = 0
    /\ sg_req = NoSgReq
    /\ sg_at = 0
    /\ sg_ts_valid = "none"
    /\ sg_ts_valid_core = "none"
    /\ sg_resp = "none"
    /\ sg_accepted = {}
    /\ sg_replayed = FALSE

\* time passes
SgTick(step) ==
    /\ sg_ticks < MaxSgTicks
    /\ sg_ticks' = sg_ticks + 1
    /\ sg_now' = sg_now + step
    /\ UNCHANGED <<sg_reqs, sg_req, sg_at, sg_ts_valid, sg_ts_valid_core, sg_resp,
                   sg_accepted, sg_replayed, SgFrame>>

\* AuthMiddleware.dispatch for a path under /openapi other than
\* /openapi.json: the three headers are read and verified; a false result
\* is answered with resp_401, a true one goes on to call_next, and an
\* exception raised by the verification leaves dispatch
SgDispatch(headers) ==
    /\ sg_reqs < MaxSgReqs
    /\ sg_reqs' = sg_reqs + 1
    /\ sg_req' = [signature |-> headers[1], timestamp |-> headers[2],
                  nonce |-> headers[3], sent |-> TRUE]
    /\ sg_at' = sg_now
    /\ sg_ts_valid' = is_timestamp_valid(headers[2], sg_now)
    /\ sg_ts_valid_core' = is_timestamp_valid_core(headers[2], sg_now)
    /\ LET x_signature == headers[1]
           x_timestamp == headers[2]
           x_nonce == headers[3]
           ok == signature_auth_helper_verify(x_signature, x_timestamp, x_nonce, sg_now)
       IN
       /\ sg_resp' = CASE ok = "true" -> "handler"
                       [] ok = "false" -> "401"
                       [] OTHER -> "error"
       /\ sg_accepted' = IF ok = "true" THEN sg_accepted \cup {headers} ELSE sg_accepted
       /\ sg_replayed' = (sg_replayed \/ (ok = "true" /\ headers \in sg_accepted))
    /\ UNCHANGED <<sg_now, sg_ticks, SgFrame>>

\* the header triples <<X-Signature, X-Timestamp, X-Nonce>> a caller may
\* send at clock reading now
SgRequests(now) ==
    UNION {UNION {{<<sig, ts, n>> : sig \in SignatureHeaders(ts, n)}
                     : n \in NonceHeaders} : ts \in TimestampHeaders(now)}

SgNext ==
    \/ \E step \in ClockSteps : SgTick(step)
    \/ \E r \in SgRequests(sg_now) : SgDispatch(r)

\* the signature check of the last request failed: a header was missing,
\* the timestamp was no integer or too old, or the signature did not match
SgVerificationFailed ==
    /\ sg_req.sent
    /\ \/ ~sg_req.signature.present \/ ~sg_req.timestamp.present \/ ~sg_req.nonce.present
       \/ ~IsIntStr(sg_req.timestamp.val)
       \/ sg_at - IntOf(sg_req.timestamp.val) > timestamp_tolerance
       \/ sg_req.signature.val
             # generate_signature(SECRET_KEY, sg_req.timestamp, sg_req.nonce)

\* C11: for a request under /openapi (other than /openapi.json), every
\* failure of the signature verification (a header missing, X-Timestamp not
\* an integer, timestamp too old, signature mismatch) is answered with a 401
\* and the handler is not invoked; none surfaces as an error.
SignedFailureIs401 == SgVerificationFailed => sg_resp = "401"

\* C12: replay resistance.  Once a (signature, timestamp, nonce) triple has
\* been accepted, a later request carrying the identical triple is rejected,
\* even while its timestamp is still within the tolerance window.
ReplayRejected == ~sg_replayed

\* the X-Timestamp of the last request is an integer, read at clock sg_at
SgIntegerTimestamp ==
    sg_req.sent /\ sg_req.timestamp.present /\ IsIntStr(sg_req.timestamp.val)

\* C13: timestamp tolerance.  With T the clock at the time of the check and
\* a tolerance of 300 seconds, is_timestamp_valid(ts) is true for every
\* integer ts with T - ts <= 300 (T - 300 itself and timestamps in the
\* future included) and false for every integer ts with T - ts >= 301, in
\* both variants of the signer.
TimestampTolerance ==
    SgIntegerTimestamp =>
        LET age == sg_at - IntOf(sg_req.timestamp.val) IN
        /\ age <= 300 => (sg_ts_valid = "true" /\ sg_ts_valid_core = "true")
        /\ age >= 301 => (sg_ts_valid = "false" /\ sg_ts_valid_core = "false")

\* a timestamp exactly 300 seconds old has been checked
TimestampToleranceWitness ==
    /\ SgIntegerTimestamp
    /\ sg_at - IntOf(sg_req.timestamp.val) = 300
    /\ sg_ts_valid = "true"

-----------------------------------------------------------------------------
(* pkg/anyio_task_manager.py : add_task called in several worker processes. *)
(* Every process has its own manager, and with it its own self.tasks and   *)
(* self._lock; add_task reads and writes nothing outside its process.      *)

MaxXpLive == 2      \* coroutines of one task id followed per process

Procs == {"p1", "p2"}
NoXpCall == [task_id |-> "", result |-> "none", found |-> FALSE]

XpInit ==
    /\ xp_started = [p \in Procs |-> FALSE]
    /\ xp_tasks = [p \in Procs |-> {}]
    /\ xp_live = [p \in Procs |-> [id \in TaskIds |-> 0]]
    /\ xp_last = [p \in Procs |-> NoXpCall]

\* start() in process p
XpStart(p) ==
    /\ ~xp_started[p]
    /\ xp_started' = [xp_started EXCEPT ![p] = TRUE]
    /\ UNCHANGED <<xp_tasks, xp_live, xp_last, XpFrame>>

XpRegisteredNever(p, task_id) == FALSE

\* "if task_id in self.tasks", under the lock of this process
XpRegistered(p, task_id) == task_id \in xp_tasks[p]

\* add_task in process p, the whole call: raises when the manager is not
\* started; returns False for an id registered in this process; otherwise
\* registers the id, starts the coroutine and returns True
XpAddTask(p, task_id) ==
    /\ xp_live[p][task_id] < MaxXpLive
    /\ IF ~xp_started[p]
       THEN /\ xp_last' = [xp_last EXCEPT ![p] =
                  [task_id |-> task_id, result |-> "raised", found |-> FALSE]]
            /\ UNCHANGED <<xp_tasks, xp_live>>
       ELSE IF XpRegistered(p, task_id)
       THEN /\ xp_last' = [xp_last EXCEPT ![p] =
                  [task_id |-> task_id, result |-> "false", found |-> TRUE]]
            /\ UNCHANGED <<xp_tasks, xp_live>>
       ELSE /\ xp_tasks' = [xp_tasks EXCEPT ![p] = @ \cup {task_id}]
            /\ xp_live' = [xp_live EXCEPT ![p][task_id] = @ + 1]
            /\ xp_last' = [xp_last EXCEPT ![p] =
                  [task_id |-> task_id, result |-> "true",
                   found |-> task_id \in xp_tasks[p]]]
    /\ UNCHANGED <<xp_started, XpFrame>>

\* the coroutine of a task ends in process p; finally: self.tasks.pop
XpTaskEnd(p, task_id) ==
    /\ xp_live[p][task_id] > 0
    /\ xp_live' = [xp_live EXCEPT ![p][task_id] = @ - 1]
    /\ xp_tasks' = [xp_tasks EXCEPT ![p] = @ \ {task_id}]
    /\ UNCHANGED <<xp_started, xp_last, XpFrame>>

XpNext ==
    \/ \E p \in Procs : XpStart(p)
    \/ \E p \in Procs, id \in TaskIds : XpAddTask(p, id)
    \/ \E p \in Procs, id \in TaskIds : XpTaskEnd(p, id)

-----------------------------------------------------------------------------
(* internal/middleware/exception.py : ExceptionHandlerMiddleware.__call__  *)
(* for an http scope, with pkg/resp.py : ResponseFactory.                  *)

MaxEbCalls == 2     \* http calls served
MaxEbWire == 3      \* messages on the wire after which self.app sends no further partial body

\* ResponseFactory: the standard codes and _init_mapping
SUCCESS == 20000
BadRequest == 40000
Unauthorized == 40001
NotFound == 40004
Forbidden == 40003
InternalServerError == 50000

_mapping ==
    (SUCCESS :> "resp_200") @@ (200 :> "resp_200") @@
    (BadRequest :> "resp_401") @@ (401 :> "resp_401") @@
    (Unauthorized :> "resp_400") @@ (400 :> "resp_400") @@
    (NotFound :> "resp_404") @@ (404 :> "resp_404") @@
    (Forbidden :> "resp_403") @@
    (InternalServerError :> "resp_500") @@ (500 :> "resp_500")

\* _base_response: always HTTP 200, the code in the body
_base_response(code, message) ==
    [raised |-> "", status_code |-> 200, code |-> code, message |-> message]

\* "f'{prefix}, {message}' if message else prefix"
EbPrefixed(prefix, message) == IF message = <<>> THEN <<prefix>> ELSE <<prefix, message>>

resp_func(name, message) ==
    CASE name = "resp_200" -> _base_response(SUCCESS, message)
      [] name = "resp_400" -> _base_response(BadRequest, EbPrefixed("Bad Request", message))
      [] name = "resp_401" -> _base_response(Unauthorized, EbPrefixed("Unauthorized", message))
      [] name = "resp_403" -> _base_response(Forbidden, EbPrefixed("Forbidden", message))
      [] name = "resp_404" -> _base_response(NotFound, EbPrefixed("Not Found", message))
      [] OTHER -> _base_response(InternalServerError, EbPrefixed("Internal Server Error", message))

resp_500(message) == resp_func("resp_500", message)

EbRaised(exception) == [raised |-> exception, status_code |-> 0, code |-> 0, message |-> <<>>]

\* the keyword parameters of ResponseFactory.response(self, *, code, data, message)
response_keywords == {"code", "data", "message"}

\* ResponseFactory.response called with code=code and <keyword>=text: a
\* keyword that is no parameter is a TypeError, a code outside _mapping a
\* ValueError
response(code, keyword, text) ==
    IF keyword \notin response_keywords THEN EbRaised("TypeError")
    ELSE IF code \notin DOMAIN _mapping THEN EbRaised("ValueError")
    ELSE resp_func(_mapping[code], IF keyword = "message" THEN text ELSE <<>>)

\* what self.app may raise: AppException(code, detail), or any other Exception
EbCodes == {404, 418, BadRequest}
EbExceptions ==
    [kind : {"AppException"}, code : EbCodes, detail : {<<"detail">>}]
        \cup {[kind |-> "Exception", code |-> 0, detail |-> <<"internal text">>]}
NoEbExc == [kind |-> "none", code |-> 0, detail |-> <<>>]

EbInit ==
    /\ eb_calls = 0
    /\ eb_pc = "idle"
    /\ eb_response_started = FALSE
    /\ eb_response_ended = FALSE
    /\ eb_app_sent = "nothing"
    /\ eb_wire = <<>>
    /\ eb_exc = NoEbExc
    /\ eb_case = "none"
    /\ eb_result = "none"

\* __call__(scope, receive, send) with scope["type"] == "http", up to the
\* call of self.app(scope, receive, send_wrapper)
EbCall ==
    /\ eb_pc \in {"idle", "done"}
    /\ eb_calls < MaxEbCalls
    /\ eb_calls' = eb_calls + 1
    /\ eb_pc' = "app"
    /\ eb_response_started' = FALSE
    /\ eb_response_ended' = FALSE
    /\ eb_app_sent' = "nothing"
    /\ eb_wire' = <<>>
    /\ eb_exc' = NoEbExc
    /\ eb_case' = "none"
    /\ eb_result' = "none"
    /\ UNCHANGED EbFrame

EbStart(by) == [type |-> "http.response.start", more_body |-> FALSE, by |-> by, code |-> 0, message |-> <<>>]
EbBody(by, more) == [type |-> "http.response.body", more_body |-> more, by |-> by, code |-> 0, message |-> <<>>]

\* the messages self.app may send next
EbAppMessages ==
    CASE eb_app_sent = "nothing" -> {EbStart("app")}
      [] eb_app_sent = "started" ->
            {EbBody("app", FALSE)} \cup (IF Len(eb_wire) < MaxEbWire THEN {EbBody("app", TRUE)} ELSE {})
      [] OTHER -> {}

\* self.app sends a message: through send_wrapper in the first call, which
\* sets the flags and forwards it, through send itself in the second
EbAppSend(message) ==
    /\ eb_pc \in {"app", "app2"}
    /\ message \in EbAppMessages
    /\ eb_wire' = Append(eb_wire, message)
    /\ eb_app_sent' = IF message.type = "http.response.start" THEN "started"
                      ELSE IF message.more_body THEN "started" ELSE "ended"
    /\ IF eb_pc = "app"
       THEN /\ eb_response_started' = (eb_response_started \/ message.type = "http.response.start")
            /\ eb_response_ended' =
                  (eb_response_ended \/ (message.type = "http.response.body" /\ ~message.more_body))
       ELSE UNCHANGED <<eb_response_started, eb_response_ended>>
    /\ UNCHANGED <<eb_calls, eb_pc, eb_exc, eb_case, eb_result, EbFrame>>

\* "await resp(scope, receive, send)": the start with the body's code, then the body
EbResponseMessages(resp) ==
    <<[EbStart("boundary") EXCEPT !.code = resp.code, !.message = resp.message],
      EbBody("boundary", FALSE)>>

\* self.app raises exc.  Inside the try (first call) the except block runs:
\* a started response gets a final empty body unless it has ended, whatever
\* send does; otherwise the response of response_factory is sent.  In the
\* second call nothing catches it.  send_ok: the first send of the block works
EbAppRaise(exc, send_ok) ==
    /\ eb_pc \in {"app", "app2"}
    /\ eb_exc' = exc
    /\ eb_pc' = "done"
    /\ IF eb_pc = "app2"
       THEN /\ eb_case' = "second"
            /\ eb_result' = "raised"
            /\ UNCHANGED eb_wire
       ELSE IF eb_response_started
       THEN /\ eb_case' = IF eb_response_ended THEN "ended" ELSE "b"
            /\ eb_wire' = IF eb_response_ended THEN eb_wire
                          ELSE Append(eb_wire, EbBody("boundary", FALSE))
            /\ eb_result' = "returned"
       ELSE LET resp == IF exc.kind = "AppException"
                        THEN response(exc.code, "msg", exc.detail)
                        ELSE resp_500(<<>>)
            IN  /\ eb_case' = "a"
                /\ eb_wire' = IF resp.raised # "" THEN eb_wire
                              ELSE IF send_ok THEN eb_wire \o EbResponseMessages(resp)
                              ELSE Append(eb_wire, EbResponseMessages(resp)[1])
                /\ eb_result' = IF resp.raised = "" /\ send_ok THEN "returned" ELSE "raised"
    /\ UNCHANGED <<eb_calls, eb_response_started, eb_response_ended, eb_app_sent, EbFrame>>

\* self.app returns.  After the first call control leaves the "if" block
\* and reaches the last line, "await self.app(scope, receive, send)"; after
\* that second call __call__ returns
EbAppReturn ==
    /\ eb_pc \in {"app", "app2"}
    /\ IF eb_pc = "app"
       THEN /\ eb_pc' = "app2"
            /\ eb_app_sent' = "nothing"
            /\ UNCHANGED eb_result
       ELSE /\ eb_pc' = "done"
            /\ eb_result' = "returned"
            /\ UNCHANGED eb_app_sent
    /\ UNCHANGED <<eb_calls, eb_response_started, eb_response_ended, eb_wire, eb_exc, eb_case, EbFrame>>

EbNext ==
    \/ EbCall
    \/ \E message \in EbAppMessages : EbAppSend(message)
    \/ \E exc \in EbExceptions, send_ok \in BOOLEAN : EbAppRaise(exc, send_ok)
    \/ EbAppReturn

\* the messages the boundary itself handed to send
EbBoundarySent == SelectSeq(eb_wire, LAMBDA message : message.by = "boundary")

\* C20: when the downstream app raises for an http request, (a) with no
\* response start sent the boundary sends exactly one complete error
\* response, with the exception's own code and detail for an AppException
\* and a generic 500 otherwise; (b) with the response started and not ended
\* it sends exactly one final empty body and no second start; in both cases
\* no exception leaves the boundary.
ExceptionBoundaryOutcome ==
    /\ eb_case = "a" =>
          /\ eb_result = "returned"
          /\ Len(EbBoundarySent) = 2
          /\ EbBoundarySent[1].type = "http.response.start"
          /\ EbBoundarySent[2] = EbBody("boundary", FALSE)
          /\ IF eb_exc.kind = "AppException"
             THEN /\ EbBoundarySent[1].code = eb_exc.code
                  /\ \E i \in 1..Len(EbBoundarySent[1].message) :
                        EbBoundarySent[1].message[i] = eb_exc.detail
             ELSE /\ EbBoundarySent[1].code = InternalServerError
                  /\ EbBoundarySent[1].message = <<"Internal Server Error">>
    /\ eb_case = "b" =>
          /\ eb_result = "returned"
          /\ EbBoundarySent = <<EbBody("boundary", FALSE)>>

-----------------------------------------------------------------------------
(* internal/app.py : register_middleware builds the stack, and a request   *)
(* goes down through it to the router and its response comes back up.      *)
(* Starlette's add_middleware inserts at the front of app.user_middleware, *)
(* and the stack is built so that user_middleware[0] is outermost.         *)

MaxPlReqs == 2      \* requests served

add_middleware_append(user_middleware, cls) == Append(user_middleware, cls)

\* app.add_middleware(cls): self.user_middleware.insert(0, Middleware(cls))
add_middleware(user_middleware, cls) == <<cls>> \o user_middleware

\* register_middleware(app), BACKEND_CORS_ORIGINS non-empty or empty
register_middleware(cors_origins) ==
    LET m6 == add_middleware(<<>>, "GZipMiddleware")
        m5 == add_middleware(m6, "ExceptionHandlingMiddleware")
        m4 == add_middleware(m5, "LimitUploadSizeMiddleware")
        m3 == add_middleware(m4, "AuthMiddleware")
        m2 == add_middleware(m3, "RecorderMiddleware")
    IN  IF cors_origins THEN add_middleware(m2, "CORSMiddleware") ELSE m2

\* the stack a request goes through: the middlewares, then the router
PlStack == pl_user_middleware \o <<"router">>

\* the message texts an unexpected exception may carry
ExcTexts == {"e1", "e2"}

PlRequests ==
    [preflight : BOOLEAN,                     \* an OPTIONS preflight request
     auth : {"pass", "401", "raise"},         \* what AuthMiddleware.dispatch does
     upload_too_large : BOOLEAN,              \* path under /upload/ and body over MAX_UPLOAD_SIZE
     router : {"response", "raise"},          \* what the routed handler does
     text : ExcTexts]                         \* str(e) of the exception, if one is raised
NoPlReq == [preflight |-> FALSE, auth |-> "pass", upload_too_large |-> FALSE, router |-> "response",
            text |-> "e1"]
NoPlBody == [raised |-> "", status_code |-> 0, code |-> 0, message |-> <<>>]

PlInit ==
    /\ pl_created = FALSE
    /\ pl_user_middleware = <<>>
    /\ pl_reqs = 0
    /\ pl_req = NoPlReq
    /\ pl_pos = 0
    /\ pl_mode = "idle"
    /\ pl_seen = <<>>
    /\ pl_back = <<>>
    /\ pl_status = 0
    /\ pl_body = NoPlBody
    /\ pl_prev = [req |-> NoPlReq, body |-> NoPlBody, done |-> FALSE]
    /\ pl_again = <<>>

\* create_app(): register_router, register_exception, register_middleware
create_app(cors_origins) ==
    /\ ~pl_created
    /\ pl_created' = TRUE
    /\ pl_user_middleware' = register_middleware(cors_origins)
    /\ UNCHANGED <<pl_reqs, pl_req, pl_pos, pl_mode, pl_seen, pl_back, pl_status, pl_body, pl_prev,
                   pl_again, PlFrame>>

\* the index of the exception boundary in the stack
PlBoundaryPos == CHOOSE i \in 1..Len(PlStack) : PlStack[i] = "ExceptionHandlingMiddleware"

\* the stages under the exception boundary that its last line, "await
\* self.app(scope, receive, send)", still has to reach: all of them, once
\* the response of the stage under the boundary has gone out, which is when
\* self.app returned inside the try
PlSecondPending ==
    /\ pl_mode = "done"
    /\ \E i \in 1..Len(pl_back) : pl_back[i] = PlStack[PlBoundaryPos + 1]
    /\ PlBoundaryPos + Len(pl_again) < Len(PlStack)

\* a request arrives at the outermost stage
PlRequest(req) ==
    /\ pl_created
    /\ pl_mode \in {"idle", "done", "escaped"}
    /\ ~PlSecondPending
    /\ pl_reqs < MaxPlReqs
    /\ pl_reqs' = pl_reqs + 1
    /\ pl_req' = req
    /\ pl_pos' = 1
    /\ pl_mode' = "down"
    /\ pl_seen' = <<>>
    /\ pl_back' = <<>>
    /\ pl_status' = 0
    /\ pl_body' = NoPlBody
    /\ pl_prev' = [req |-> pl_req, body |-> pl_body, done |-> pl_mode = "done"]
    /\ pl_again' = <<>>
    /\ UNCHANGED <<pl_created, pl_user_middleware, PlFrame>>

\* what a stage does with the request: "pass" it on (call_next / self.app),
\* answer it itself with a status, or raise
StageOnRequest(stage, req) ==
    CASE stage = "CORSMiddleware" ->
            IF req.preflight THEN [do |-> "respond", status |-> 200] ELSE [do |-> "pass", status |-> 0]
      [] stage = "RecorderMiddleware" -> [do |-> "pass", status |-> 0]
      [] stage = "AuthMiddleware" ->
            CASE req.auth = "pass" -> [do |-> "pass", status |-> 0]
              [] req.auth = "401" -> [do |-> "respond", status |-> 401]
              [] OTHER -> [do |-> "raise", status |-> 0]
      [] stage = "LimitUploadSizeMiddleware" ->
            IF req.upload_too_large THEN [do |-> "respond", status |-> 413] ELSE [do |-> "pass", status |-> 0]
      [] stage = "ExceptionHandlingMiddleware" -> [do |-> "pass", status |-> 0]
      [] stage = "GZipMiddleware" -> [do |-> "pass", status |-> 0]
      [] OTHER ->
            IF req.router = "response" THEN [do |-> "respond", status |-> 200] ELSE [do |-> "raise", status |-> 0]

\* the body a stage answers with when it answers the request itself
StageAnswer(stage) ==
    CASE stage = "CORSMiddleware" -> [NoPlBody EXCEPT !.status_code = 200, !.message = <<"OK">>]
      [] stage = "AuthMiddleware" -> resp_func("resp_401", <<"invalid or missing token">>)
      [] stage = "LimitUploadSizeMiddleware" ->
            [NoPlBody EXCEPT !.status_code = 413, !.code = 413, !.message = <<"upload too large">>]
      [] OTHER -> resp_func("resp_200", <<>>)

\* the body a stage answers with when it catches exception e with str(e) = text:
\* RecorderMiddleware: resp_500(message=f"Unhandled Exception: {str(e)}");
\* ExceptionHandlerMiddleware, for what is no AppException: resp_500()
StageErrorAnswer(stage, text) ==
    IF stage = "RecorderMiddleware"
    THEN resp_500(<<"Unhandled Exception: ", text>>)
    ELSE resp_500(<<>>)

\* the stages that catch an exception of the stages below them
StageCatches(stage) == stage \in {"RecorderMiddleware", "ExceptionHandlingMiddleware"}

\* the stage at pl_pos receives the request
PlStageRequest ==
    /\ pl_mode = "down"
    /\ LET stage == PlStack[pl_pos]
           d == StageOnRequest(stage, pl_req)
       IN  /\ pl_seen' = Append(pl_seen, stage)
           /\ pl_status' = d.status
           /\ pl_body' = IF d.do = "respond" THEN StageAnswer(stage) ELSE pl_body
           /\ pl_pos' = CASE d.do = "pass" -> pl_pos + 1
                          [] d.do = "respond" -> pl_pos
                          [] OTHER -> pl_pos - 1
           /\ pl_mode' = CASE d.do = "pass" -> "down"
                           [] d.do = "respond" -> "up"
                           [] OTHER -> IF pl_pos = 1 THEN "escaped" ELSE "raise"
    /\ UNCHANGED <<pl_created, pl_user_middleware, pl_reqs, pl_req, pl_back, pl_prev, pl_again,
                   PlFrame>>

\* the response leaves the stage at pl_pos towards the client
PlStageResponse ==
    /\ pl_mode = "up"
    /\ pl_back' = Append(pl_back, PlStack[pl_pos])
    /\ pl_pos' = pl_pos - 1
    /\ pl_mode' = IF pl_pos = 1 THEN "done" ELSE "up"
    /\ UNCHANGED <<pl_created, pl_user_middleware, pl_reqs, pl_req, pl_seen, pl_status, pl_body,
                   pl_prev, pl_again, PlFrame>>

\* an exception of the stages below reaches the stage at pl_pos: a stage
\* with an "except Exception" answers 500, any other lets it through
PlStageException ==
    /\ pl_mode = "raise"
    /\ IF StageCatches(PlStack[pl_pos])
       THEN /\ pl_mode' = "up"
            /\ pl_status' = 500
            /\ pl_body' = StageErrorAnswer(PlStack[pl_pos], pl_req.text)
            /\ pl_pos' = pl_pos
       ELSE /\ pl_mode' = IF pl_pos = 1 THEN "escaped" ELSE "raise"
            /\ pl_pos' = pl_pos - 1
            /\ pl_status' = pl_status
            /\ pl_body' = pl_body
    /\ UNCHANGED <<pl_created, pl_user_middleware, pl_reqs, pl_req, pl_seen, pl_back, pl_prev, pl_again,
                   PlFrame>>

\* ExceptionHandlerMiddleware.__call__ after a self.app that returned: the
\* if block is left without a return and the last line calls self.app
\* again, so the next stage under the boundary sees the request once more
PlSecondCall ==
    /\ PlSecondPending
    /\ pl_again' = Append(pl_again, PlStack[PlBoundaryPos + Len(pl_again) + 1])
    /\ UNCHANGED <<pl_created, pl_user_middleware, pl_reqs, pl_req, pl_pos, pl_mode, pl_seen, pl_back,
                   pl_status, pl_body, pl_prev, PlFrame>>

PlNext ==
    \/ \E c \in BOOLEAN : create_app(c)
    \/ \E r \in PlRequests : PlRequest(r)
    \/ PlStageRequest
    \/ PlStageResponse
    \/ PlStageException
    \/ PlSecondCall

\* s without the stage CORSMiddleware, which is left out when no origin is configured
PlConfigured(s) ==
    IF \E i \in 1..Len(pl_user_middleware) : pl_user_middleware[i] = "CORSMiddleware"
    THEN s ELSE SelectSeq(s, LAMBDA x : x # "CORSMiddleware")

\* the request went down a prefix of order, and the response has come back
\* through consecutive stages of it in reverse, from a stage the request
\* reached up to the outermost one
PlTraversal(order) ==
    /\ Len(pl_seen) <= Len(order)
    /\ pl_seen = SubSeq(order, 1, Len(pl_seen))
    /\ Len(pl_back) > 0 =>
          \E from \in 1..Len(pl_seen) :
              /\ Len(pl_back) <= from
              /\ \A i \in 1..Len(pl_back) : pl_back[i] = order[from - i + 1]
              /\ pl_mode = "done" => Len(pl_back) = from

PlSecondTraversal(order) ==
    \A i \in 1..Len(pl_again) :
        \E b \in 1..(Len(order) - i) :
            order[b] = "ExceptionHandlingMiddleware" /\ pl_again[i] = order[b + i]

-----------------------------------------------------------------------------
(* What the client learns of an unexpected exception. *)

\* text is part of the message of body
TextIn(text, body) ==
    \E i \in 1..Len(body.message) :
        /\ i > 1
        /\ \E j \in 1..Len(body.message[i]) : body.message[i][j] = text

\* C21: no internal exception text reaches the client.  The body of a 500
\* response never contains str(exception), and two runs of one request that
\* differ only in the text of the unexpected exception get the same body.
NoExceptionTextLeak ==
    /\ (pl_mode \in {"up", "done"} /\ pl_body.code = InternalServerError)
          => ~TextIn(pl_req.text, pl_body)
    /\ (pl_mode = "done" /\ pl_prev.done /\ pl_prev.req = [pl_req EXCEPT !.text = pl_prev.req.text])
          => pl_prev.body = pl_body

-----------------------------------------------------------------------------
(* internal/models/__init__.py : ModelMixin.create / populate / update /   *)
(* save, and internal/utils/orm_helpers.py : UpdateBuilder.update /        *)
(* soft_delete / update_stmt / execute, with the field mapping the caller  *)
(* supplies.  Times are integers, 0 stands for NULL.                       *)

MaxEnTime == 2      \* the clock runs from 1 to MaxEnTime
MaxEnRows == 2      \* rows of the table
MaxEnIds == 2       \* ids generated or supplied

Slots == 1..MaxEnRows
EnTimes == 1..MaxEnTime
EnIds == 1..MaxEnIds

\* cls.__table__.columns of the entity
EnColumns == {"id", "val", "created_at", "updated_at", "deleted_at"}

\* the field mappings a caller passes as **kwargs: empty, or one key
EnKwargs ==
    {<<>>} \cup {("id" :> i) : i \in EnIds} \cup {("val" :> "b"), ("nickname" :> "b")}
           \cup {("updated_at" :> t) : t \in EnTimes} \cup {("deleted_at" :> t) : t \in EnTimes}

NoRow == [exists |-> FALSE, id |-> 0, val |-> "", created_at |-> 0, updated_at |-> 0, deleted_at |-> 0]

EnInit ==
    /\ en_rows = [s \in Slots |-> NoRow]
    /\ en_now = 1
    /\ en_next = 1
    /\ en_last = [raised |-> FALSE]

EnTick ==
    /\ en_now < MaxEnTime
    /\ en_now' = en_now + 1
    /\ UNCHANGED <<en_rows, en_next, en_last, EnFrame>>

\* "for column_name, value in kwargs.items(): if not has_column: continue;
\* setattr(self, column_name, value)"
populate(row, kwargs) ==
    [c \in DOMAIN row |->
        IF c \in EnColumns /\ c \in DOMAIN kwargs THEN kwargs[c] ELSE row[c]]

\* ModelMixin.create(**kwargs)
create(kwargs) ==
    LET instance == [NoRow EXCEPT !.exists = TRUE, !.val = "a",
                                  !.created_at = en_now, !.updated_at = en_now,
                                  !.id = IF "id" \in DOMAIN kwargs THEN 0 ELSE en_next]
    IN  populate(instance, kwargs)

\* the primary key: row s cannot take an id another row has
IdTaken(s, id) == \E o \in Slots \ {s} : en_rows[o].exists /\ en_rows[o].id = id

\* cls.create(**kwargs) followed by save(): the insert raises on a duplicate id
EnCreate(s, kwargs) ==
    /\ ~en_rows[s].exists
    /\ \A o \in Slots : o < s => en_rows[o].exists
    /\ en_next <= MaxEnIds
    /\ LET instance == create(kwargs)
       IN  /\ en_next' = IF "id" \in DOMAIN kwargs THEN en_next ELSE en_next + 1
           /\ IF IdTaken(s, instance.id)
              THEN /\ en_last' = [raised |-> TRUE]
                   /\ UNCHANGED en_rows
              ELSE /\ en_last' = [raised |-> FALSE]
                   /\ en_rows' = [en_rows EXCEPT ![s] = instance]
    /\ UNCHANGED <<en_now, EnFrame>>

\* the row a flush of the changed instance leaves: unchanged when the new
\* id is taken (the commit raises)
EnFlush(s, row) == IF IdTaken(s, row.id) THEN en_rows[s] ELSE row

\* instance.populate(**kwargs) followed by save()
EnPopulate(s, kwargs) ==
    /\ en_rows[s].exists
    /\ LET row == populate(en_rows[s], kwargs)
       IN  /\ en_rows' = [en_rows EXCEPT ![s] = EnFlush(s, row)]
           /\ en_last' = [raised |-> IdTaken(s, row.id)]
    /\ UNCHANGED <<en_now, en_next, EnFrame>>

\* ModelMixin.update(**kwargs): the columns of kwargs are set, then
\* updated_at is set to the current time, then the instance is committed
EnEntityUpdate(s, kwargs) ==
    /\ en_rows[s].exists
    /\ LET row == [populate(en_rows[s], kwargs) EXCEPT !.updated_at = en_now]
       IN  /\ en_rows' = [en_rows EXCEPT ![s] = EnFlush(s, row)]
           /\ en_last' = [raised |-> IdTaken(s, row.id)]
    /\ UNCHANGED <<en_now, en_next, EnFrame>>

\* UpdateBuilder.update(**kwargs): _update_dict takes the keys that are columns
UpdateBuilder_update(update_dict, kwargs) ==
    [c \in DOMAIN update_dict \cup (DOMAIN kwargs \cap EnColumns) |->
        IF c \in DOMAIN kwargs THEN kwargs[c] ELSE update_dict[c]]

\* UpdateBuilder.soft_delete(): _update_dict[deleted_at] = now
soft_delete(update_dict) ==
    [c \in DOMAIN update_dict \cup {"deleted_at"} |->
        IF c = "deleted_at" THEN en_now ELSE update_dict[c]]

\* dict.setdefault(key, value)
setdefault(d, key, value) ==
    IF key \in DOMAIN d THEN d ELSE [c \in DOMAIN d \cup {key} |-> IF c = key THEN value ELSE d[c]]

\* UpdateBuilder.update_stmt: the values of the statement.  updated_at
\* follows a deleted_at of the dict and otherwise the current time, and
\* only when the dict has no updated_at of its own
update_stmt(update_dict) ==
    IF DOMAIN update_dict = {} THEN update_dict
    ELSE LET d1 == IF "deleted_at" \in DOMAIN update_dict
                   THEN setdefault(update_dict, "updated_at", update_dict["deleted_at"])
                   ELSE update_dict
         IN  setdefault(d1, "updated_at", en_now)

\* UpdateBuilder(model_ins=row s).update(**kwargs)[.soft_delete()].execute():
\* nothing when _update_dict is empty, otherwise UPDATE ... WHERE id = ins.id
EnBuilderUpdate(s, kwargs, soft) ==
    /\ en_rows[s].exists
    /\ LET d0 == UpdateBuilder_update(<<>>, kwargs)
           d1 == IF soft THEN soft_delete(d0) ELSE d0
           row == populate(en_rows[s], update_stmt(d1))
       IN  /\ en_rows' = [en_rows EXCEPT ![s] = EnFlush(s, row)]
           /\ en_last' = [raised |-> IdTaken(s, row.id)]
    /\ UNCHANGED <<en_now, en_next, EnFrame>>

EnNext ==
    \/ EnTick
    \/ \E s \in Slots, kwargs \in EnKwargs : EnCreate(s, kwargs)
    \/ \E s \in Slots, kwargs \in EnKwargs : EnPopulate(s, kwargs)
    \/ \E s \in Slots, kwargs \in EnKwargs : EnEntityUpdate(s, kwargs)
    \/ \E s \in Slots, kwargs \in EnKwargs, soft \in BOOLEAN : EnBuilderUpdate(s, kwargs, soft)

\* a step of create, entity update, builder update or soft delete
EnWriteStep ==
    \E s \in Slots, kwargs \in EnKwargs :
        \/ EnCreate(s, kwargs)
        \/ EnEntityUpdate(s, kwargs)
        \/ \E soft \in BOOLEAN : EnBuilderUpdate(s, kwargs, soft)

\* C23: updated_at never decreases.  Over create, entity update, builder
\* update and soft delete, also when the caller supplies updated_at or
\* deleted_at, the stored updated_at of a row after an operation is greater
\* than or equal to its value before.
UpdatedAtNeverDecreases ==
    [][EnWriteStep =>
          \A s \in Slots :
              en_rows[s].exists => en_rows'[s].updated_at >= en_rows[s].updated_at]_vars

\* C24: id is immutable.  No create, populate, entity update or builder
\* update, whatever field mapping the caller supplies, changes the id of an
\* existing row.
IdImmutable ==
    [][\A s \in Slots : en_rows[s].exists => en_rows'[s].id = en_rows[s].id]_vars

-----------------------------------------------------------------------------
(* internal/dao/dao.py : update_and_insert_log, with the session of         *)
(* utils/db.py : get_local_session.  The database is counted: the number   *)
(* of committed update effects and of committed AssetOperationLog rows.    *)

MaxAuCalls == 4     \* calls of update_and_insert_log

NoTx == [updates |-> 0, logs |-> 0]

AuInit ==
    /\ au_calls = 0
    /\ au_pc = "idle"
    /\ au_db = NoTx
    /\ au_tx = NoTx
    /\ au_before = NoTx
    /\ au_result = "none"
    /\ au_fail = "none"

session_begin_exit_partial(db, tx, ok) ==
    [updates |-> db.updates + tx.updates, logs |-> db.logs + (IF ok THEN tx.logs ELSE 0)]

\* leaving "async with session.begin()": commit of everything pending when
\* the block and the flush went through, rollback of everything otherwise
session_begin_exit(db, tx, ok) ==
    IF ok THEN [updates |-> db.updates + tx.updates, logs |-> db.logs + tx.logs] ELSE db

\* update_and_insert_log up to session.begin(): the log object is created,
\* the session opened and the transaction begun
AuCall ==
    /\ au_pc \in {"idle", "done"}
    /\ au_calls < MaxAuCalls
    /\ au_calls' = au_calls + 1
    /\ au_pc' = "begun"
    /\ au_tx' = NoTx
    /\ au_before' = au_db
    /\ au_result' = "none"
    /\ au_fail' = "none"
    /\ UNCHANGED <<au_db, AuFrame>>

\* the block is left by an exception: rollback, logger.error, raise
\* HTTPException(500); get_local_session closes the session
AuRaise(step) ==
    /\ au_db' = session_begin_exit(au_db, au_tx, FALSE)
    /\ au_tx' = NoTx
    /\ au_pc' = "done"
    /\ au_result' = "error"
    /\ au_fail' = step

\* await session.execute(update_stmt)
AuExecute(ok) ==
    /\ au_pc = "begun"
    /\ IF ok
       THEN /\ au_tx' = [au_tx EXCEPT !.updates = 1]
            /\ au_pc' = "executed"
            /\ UNCHANGED <<au_db, au_result, au_fail>>
       ELSE AuRaise("update")
    /\ UNCHANGED <<au_calls, au_before, AuFrame>>

\* session.add(operation_log)
AuAdd ==
    /\ au_pc = "executed"
    /\ au_tx' = [au_tx EXCEPT !.logs = 1]
    /\ au_pc' = "added"
    /\ UNCHANGED <<au_calls, au_db, au_before, au_result, au_fail, AuFrame>>

\* the end of the session.begin() block: the flush inserts the log row and
\* the transaction commits, or one of the two fails
AuCommit(outcome) ==
    /\ au_pc = "added"
    /\ IF outcome = "ok"
       THEN /\ au_db' = session_begin_exit(au_db, au_tx, TRUE)
            /\ au_tx' = NoTx
            /\ au_pc' = "done"
            /\ au_result' = "ok"
            /\ UNCHANGED au_fail
       ELSE AuRaise(outcome)
    /\ UNCHANGED <<au_calls, au_before, AuFrame>>

AuNext ==
    \/ AuCall
    \/ \E ok \in BOOLEAN : AuExecute(ok)
    \/ AuAdd
    \/ \E outcome \in {"ok", "insert", "commit"} : AuCommit(outcome)

\* C25: audit atomicity.  For every call of update_and_insert_log either
\* the update's effect and the new AssetOperationLog row are both
\* committed, or neither is; a failure of the update or of the log insert
\* leaves the database as it was and is reported to the caller as an error.
AuditAtomicity ==
    /\ au_db.updates = au_db.logs
    /\ au_pc \in {"begun", "executed", "added"} => au_db = au_before
    /\ au_pc = "done" =>
          \/ /\ au_result = "ok"
             /\ au_fail = "none"
             /\ au_db = [updates |-> au_before.updates + 1, logs |-> au_before.logs + 1]
          \/ /\ au_result = "error"
             /\ au_fail # "none"
             /\ au_db = au_before

\* the log insert failed after the update had been executed in the
\* transaction, with an earlier call committed
AuditAtomicityWitness ==
    /\ au_pc = "done"
    /\ au_fail = "insert"
    /\ au_result = "error"
    /\ au_db.updates >= 1

-----------------------------------------------------------------------------
(* internal/utils/orm_helpers.py : BaseBuilder.where and the operator       *)
(* methods, on one QueryBuilder instance that serves several queries, as   *)
(* in test/test_query_builder.py.  The table holds the test user X and a   *)
(* row on either side of it, none deleted.                                 *)

MaxQbConds == 3     \* conditions added to one builder

QbX == 2            \* test_user.id
QbRows == {QbX - 1, QbX, QbX + 1}

\* username of a row: only the test user's matches "%lilinze%"
QbUsernameLike(id) == id = QbX

\* the conditions the test adds, by operator method
QbConds ==
    {[op |-> "eq", col |-> "id", a |-> QbX, b |-> 0],
     [op |-> "ne", col |-> "id", a |-> QbX, b |-> 0],
     [op |-> "gt", col |-> "id", a |-> QbX - 1, b |-> 0],
     [op |-> "lt", col |-> "id", a |-> QbX + 1, b |-> 0],
     [op |-> "ge", col |-> "id", a |-> QbX, b |-> 0],
     [op |-> "le", col |-> "id", a |-> QbX, b |-> 0],
     [op |-> "in_", col |-> "id", a |-> QbX, b |-> 0],
     [op |-> "like", col |-> "username", a |-> 0, b |-> 0],
     [op |-> "is_null", col |-> "deleted_at", a |-> 0, b |-> 0],
     [op |-> "between", col |-> "id", a |-> QbX - 1, b |-> QbX + 1]}

\* whether row id satisfies a condition
QbHolds(id, cond) ==
    CASE cond.op = "eq" -> id = cond.a
      [] cond.op = "ne" -> id # cond.a
      [] cond.op = "gt" -> id > cond.a
      [] cond.op = "lt" -> id < cond.a
      [] cond.op = "ge" -> id >= cond.a
      [] cond.op = "le" -> id <= cond.a
      [] cond.op = "in_" -> id \in {cond.a}
      [] cond.op = "like" -> QbUsernameLike(id)
      [] cond.op = "is_null" -> TRUE
      [] OTHER -> id >= cond.a /\ id <= cond.b

\* QueryBuilder(User): the statement selects the rows that are not deleted
QbInit ==
    /\ qb_stmt = <<>>
    /\ qb_last = [asked |-> FALSE, cond |-> [op |-> "none", col |-> "", a |-> 0, b |-> 0], result |-> {}]

\* BaseBuilder.where(*conditions): self._stmt = self._stmt.where(*conditions)
where(stmt, cond) == Append(stmt, cond)

\* sess.execute(self._stmt): the rows that satisfy every condition of the statement
QbExecute(stmt) == {id \in QbRows : \A i \in 1..Len(stmt) : QbHolds(id, stmt[i])}

\* builder.<op>(column, value).scalars_all() on the one builder
QbQuery(cond) ==
    /\ Len(qb_stmt) < MaxQbConds
    /\ qb_stmt' = where(qb_stmt, cond)
    /\ qb_last' = [asked |-> TRUE, cond |-> cond, result |-> QbExecute(qb_stmt')]
    /\ UNCHANGED QbFrame

\* a new QueryBuilder(User) is taken
QbNew ==
    /\ qb_stmt # <<>>
    /\ qb_stmt' = <<>>
    /\ qb_last' = [qb_last EXCEPT !.asked = FALSE]
    /\ UNCHANGED QbFrame

QbNext ==
    \/ \E cond \in QbConds : QbQuery(cond)
    \/ QbNew

\* C26: a query builder instance can be reused for successive independent
\* queries.  The conditions added for an executed query do not constrain
\* the queries built later on the instance: each query returns the rows of
\* its own condition, so after eq(id, X) and ne(id, X) the queries gt, lt,
\* ge, le, in_, like, is_null and between still return row X.
BuilderReuse ==
    qb_last.asked =>
        /\ qb_last.result = {id \in QbRows : QbHolds(id, qb_last.cond)}
        /\ qb_last.cond.op \notin {"ne"} => QbX \in qb_last.result

-----------------------------------------------------------------------------
(* pkg/httpx_helper.py : HTTPXClient._request and get / post / put /        *)
(* delete.  The end of a call is a record: it returned a value or raised   *)
(* an exception.                                                           *)

MaxHxCalls == 4     \* calls made to the client

\* what client.request and raise_for_status do: a 2xx response, a non-2xx
\* response (HTTPStatusError), a transport failure (RequestError), or any
\* other exception
Upstreams == {"2xx", "non-2xx", "transport", "other"}
Verbs == {"GET", "POST", "PUT", "DELETE"}

HxReturn(value) == [kind |-> "return", value |-> value, exception |-> ""]
HxRaise(exception) == [kind |-> "raise", value |-> <<>>, exception |-> exception]

\* Python's None, as a returned value
HxNone == <<"None">>

\* _request(method, url, ..., to_raise): the three except clauses raise
\* AppIgnoreException or return (None, None, text); after a try block that
\* raised nothing the function ends without a return statement
_request(upstream, to_raise) ==
    CASE upstream = "2xx" -> HxReturn(HxNone)
      [] upstream = "non-2xx" ->
            IF to_raise THEN HxRaise("AppIgnoreException")
            ELSE HxReturn(<<"None", "None", "resp_content">>)
      [] OTHER ->
            IF to_raise THEN HxRaise("AppIgnoreException")
            ELSE HxReturn(<<"None", "None", "str(exc)">>)

\* get / post / put / delete: resp = await self._request(...); return resp.json()
verb(upstream) ==
    LET resp == _request(upstream, TRUE)
    IN  IF resp.kind = "raise" THEN resp
        ELSE IF resp.value = HxNone THEN HxRaise("AttributeError")
        ELSE HxReturn(<<"body">>)

NoHxCall == [method |-> "none", to_raise |-> TRUE, upstream |-> "2xx", result |-> HxReturn(HxNone)]

HxInit ==
    /\ hx_calls = 0
    /\ hx_last = NoHxCall

\* client.get(url) / post / put / delete
HxVerb(method, upstream) ==
    /\ hx_calls < MaxHxCalls
    /\ hx_calls' = hx_calls + 1
    /\ hx_last' = [method |-> method, to_raise |-> TRUE, upstream |-> upstream,
                   result |-> verb(upstream)]
    /\ UNCHANGED HxFrame

\* client._request(method, url, to_raise=...) called directly
HxRequest(method, upstream, to_raise) ==
    /\ hx_calls < MaxHxCalls
    /\ hx_calls' = hx_calls + 1
    /\ hx_last' = [method |-> "_request", to_raise |-> to_raise, upstream |-> upstream,
                   result |-> _request(upstream, to_raise)]
    /\ UNCHANGED HxFrame

HxNext ==
    \/ \E method \in Verbs, upstream \in Upstreams : HxVerb(method, upstream)
    \/ \E method \in Verbs, upstream \in Upstreams, to_raise \in BOOLEAN :
          HxRequest(method, upstream, to_raise)

\* C27: outbound HTTP call outcomes.  A call of get/post/put/delete returns
\* the decoded body when the upstream answered 2xx and raises the
\* translated upstream-failure exception when it answered non-2xx or the
\* transport failed; the variant with to_raise false never raises and
\* returns a (status, body, error) triple in every case, success included.
HttpCallOutcomes ==
    /\ hx_last.method \in Verbs =>
          IF hx_last.upstream = "2xx"
          THEN hx_last.result = HxReturn(<<"body">>)
          ELSE hx_last.result = HxRaise("AppIgnoreException")
    /\ (hx_last.method = "_request" /\ ~hx_last.to_raise) =>
          /\ hx_last.result.kind = "return"
          /\ Len(hx_last.result.value) = 3

-----------------------------------------------------------------------------
(* The exception boundary and its single downstream call. *)

\* the indices of eb_wire that hold a final body message
EbFinalBodies ==
    {i \in 1..Len(eb_wire) : eb_wire[i].type = "http.response.body" /\ ~eb_wire[i].more_body}

\* C28: the exception boundary invokes the downstream app exactly once per
\* http request, whether that invocation raises or not, so the client is
\* sent at most one http.response.start and no message after the final body.
DownstreamInvokedOnce ==
    /\ eb_pc # "app2"
    /\ Cardinality({i \in 1..Len(eb_wire) : eb_wire[i].type = "http.response.start"}) <= 1
    /\ \A i \in EbFinalBodies : i = Len(eb_wire)

\* C29: add_task is deadlock-free and fire-and-forget.  No state has
\* add_task holding self.lock in the exit of its task group, waiting for a
\* child whose finally block is queued on that same lock (so add_task can
\* return true and the cleanup can remove the registry entry).
AddTaskDeadlockFree ==
    \A c \in AsCalls :
        ~ /\ as_lock = c
          /\ as_call[c].pc = "join"
          /\ as_task[c].pc = "finally"

\* C30: scheduler flag consistency.  In every state reachable by start(),
\* shutdown() and register_* calls, also when the underlying scheduler's
\* start or shutdown raises, running() (the _started flag) is true exactly
\* when the underlying scheduler is running.
SchedulerFlagConsistency ==
    cr_started = cr_running

-----------------------------------------------------------------------------
(* Specifications *)

Init == SfInit /\ SsInit /\ AnInit /\ AsInit /\ FoInit /\ CrInit /\ OrmInit /\ MwInit /\ SgInit /\ AlInit /\ XpInit /\ PlInit /\ EbInit /\ EnInit /\ AuInit /\ QbInit /\ HxInit

SpecSnowflake == Init /\ [][SfNext]_vars

SpecSession == Init /\ [][SsNext]_vars

SpecAnyio == Init /\ [][AnNext]_vars

SpecAnyioFair == SpecAnyio /\ AnFairness

SpecAsync == Init /\ [][AsNext]_vars

SpecAsyncFair == SpecAsync /\ AsFairness

SpecAnyioCap == Init /\ [][AnCapNext]_vars

SpecAnyioCapFair == SpecAnyioCap /\ AnCapFairness

SpecFanout == Init /\ [][FoNext]_vars

SpecCron == Init /\ [][CrNext]_vars

SpecOrm == Init /\ [][OrmNext]_vars

SpecAuthMw == Init /\ [][MwNext]_vars

SpecSignature == Init /\ [][SgNext]_vars

SpecCrossProcess == Init /\ [][XpNext]_vars

SpecPipeline == Init /\ [][PlNext]_vars

SpecBoundary == Init /\ [][EbNext]_vars

SpecEntity == Init /\ [][EnNext]_vars

SpecAudit == Init /\ [][AuNext]_vars

SpecQueryBuilder == Init /\ [][QbNext]_vars

SpecHttpx == Init /\ [][HxNext]_vars

=============================================================================
